---------------------------- MODULE Spec2Model ----------------------------
(***************************************************************************)
(* A model of the ingestion-and-normalization core of prow-audit-agent:    *)
(* the taxonomy normalizers (database/taxonomy.py), the streaming log      *)
(* sampler (parsers/log_parser.py), the semantic clusterer                 *)
(* (utils/semantic_clustering.py), the Prow structure walker               *)
(* (parsers/prow_structure.py) and the root-cause distribution query       *)
(* (mcp/database_server.py).                                               *)
(*                                                                         *)
(* Python strings are modelled as sequences of one-character strings so    *)
(* that lower(), strip(), replace() and the `in` substring test can be     *)
(* computed the way CPython computes them.  Each component has its own     *)
(* specification over its own variables; the variables of the other        *)
(* components stay at their idle values.                                   *)
(***************************************************************************)
EXTENDS Integers, Sequences, FiniteSets, TLC

VARIABLES
    tx_fn,       \* which normalizer the caller uses
    tx_input,    \* the caller's raw value (Optional[str])
    tx_out       \* outputs of the successive calls, each fed the previous one

taxVars == <<tx_fn, tx_input, tx_out>>

VARIABLES
    lg_op,             \* the entry point called: create_log_context or extract_errors
    lg_file,           \* the log file at log_path
    lg_head_lines,     \* max_head_lines / head_lines
    lg_tail_lines,     \* max_tail_lines / tail_lines
    lg_max_sample,     \* max_sample_lines
    lg_threshold,      \* sample_threshold
    lg_include_errors, \* include_errors
    lg_max_errors,     \* max_errors
    lg_pc,             \* position in the code
    lg_pos,            \* lines consumed from the open file (current_line in the sampling pass)
    lg_head,           \* head
    lg_tail,           \* tail
    lg_total,          \* total_lines
    lg_numbers,        \* sample_line_numbers
    lg_sample_idx,     \* sample_idx
    lg_middle,         \* middle_samples
    lg_has_samples,    \* has_samples
    lg_opens,          \* number of times the file has been opened
    lg_result          \* the returned value

logParams ==
    <<lg_op, lg_file, lg_head_lines, lg_tail_lines, lg_max_sample, lg_threshold,
      lg_include_errors, lg_max_errors>>

logVars ==
    <<logParams, lg_pc, lg_pos, lg_head, lg_tail, lg_total, lg_numbers,
      lg_sample_idx, lg_middle, lg_has_samples, lg_opens, lg_result>>

VARIABLES
    cl_failures,        \* the list of {root_cause, count} items to cluster
    cl_threshold,       \* similarity_threshold of the clusterer last built
    cl_calls,           \* number of clustering calls made on the list
    cl_result,          \* the clusters the last call returned
    cl_prev_threshold,  \* similarity_threshold of the call before
    cl_prev_result      \* the clusters the call before returned

clusterVars ==
    <<cl_failures, cl_threshold, cl_calls, cl_result, cl_prev_threshold, cl_prev_result>>

VARIABLES
    wk_root,            \* the log tree: the root's listing and what each name holds
    wk_filter_stage,    \* the filter_stage argument of the traversal
    wk_pc,              \* "new", "ready", "iterating", "done" or "raised"
    wk_idx,             \* entries of the listing find_all_runs has consumed
    wk_seen,            \* seen_builds of find_all_runs
    wk_all,             \* the runs find_all_runs has yielded
    wk_failed,          \* the runs find_failed_runs has yielded
    wk_warnings         \* the warnings printed

walkerVars ==
    <<wk_root, wk_filter_stage, wk_pc, wk_idx, wk_seen, wk_all, wk_failed, wk_warnings>>

VARIABLES
    ds_table,       \* step_analyses: the number of rows of each root_cause, and of rows without one
    ds_args,        \* limit, use_semantic_clustering and similarity_threshold of the call
    ds_provider,    \* what the embedding provider does when it is asked for embeddings
    ds_pc,          \* "idle", "returned" or "raised"
    ds_result       \* the dictionary the call returned

distVars == <<ds_table, ds_args, ds_provider, ds_pc, ds_result>>

VARIABLES
    wk_other,         \* the caller's other traversal: the locals of its suspended generator
    ag_pc,            \* "new" (no repository yet), "idle", "raised", "done", or the place
                      \* in phase 1: "phase_1" (the run loop), "stages", "steps",
                      \* "analyzing", "step_created"
    ag_audits,        \* the agents constructed on the database file so far
    ag_metadata,      \* the row of audit_metadata, if the table holds one
    ag_failed_runs,   \* failed_runs, the list phase 0 returned
    ag_idx,           \* run_count of phase 1
    ag_stage_idx,     \* stage_idx of phase 1
    ag_step_idx,      \* step_idx of phase 1
    ag_ids,           \* the ids of the rows phase 1 holds in `run`, `stage` and `step`
    ag_dropped,       \* history: drop_all_tables was called on the file after this
                      \* agent had constructed its repository
    ag_db             \* the database file: whether its tables exist, and the rows of
                      \* runs, stages, steps and step_analysis, a row's id being its
                      \* position in its table

auditVars ==
    <<wk_other, ag_pc, ag_audits, ag_metadata, ag_failed_runs, ag_idx, ag_stage_idx,
      ag_step_idx, ag_ids, ag_dropped, ag_db>>

vars == <<taxVars, logVars, clusterVars, walkerVars, distVars, auditVars>>

\* the variables of the other components, which a component's actions leave alone
outsideTax == <<logVars, clusterVars, walkerVars, distVars, auditVars>>
outsideLog == <<taxVars, clusterVars, walkerVars, distVars, auditVars>>
outsideCluster == <<taxVars, logVars, walkerVars, distVars, auditVars>>
outsideWalker == <<taxVars, logVars, clusterVars, distVars, auditVars>>
outsideDist == <<taxVars, logVars, clusterVars, walkerVars, auditVars>>
outsideAudit == <<taxVars, logVars, clusterVars, distVars>>

-----------------------------------------------------------------------------
(* Python values *)

\* Optional[str]: None, or a str
None == [some |-> FALSE, str |-> <<>>]
Some(s) == [some |-> TRUE, str |-> s]

\* Python truthiness of an Optional[str]: None and "" are falsy
Truthy(value) == value.some /\ value.str # <<>>

\* the characters of Latin-1 that str.lower() changes, and what it makes of
\* them (a str here holds characters of Latin-1 only)
Uppers ==
    << "A","B","C","D","E","F","G","H","I","J","K","L","M",
       "N","O","P","Q","R","S","T","U","V","W","X","Y","Z",
       "À","Á","Â","Ã","Ä","Å","Æ","Ç","È","É","Ê","Ë","Ì","Í","Î",
       "Ï","Ð","Ñ","Ò","Ó","Ô","Õ","Ö","Ø","Ù","Ú","Û","Ü","Ý","Þ" >>

Lowers ==
    << "a","b","c","d","e","f","g","h","i","j","k","l","m",
       "n","o","p","q","r","s","t","u","v","w","x","y","z",
       "à","á","â","ã","ä","å","æ","ç","è","é","ê","ë","ì","í","î",
       "ï","ð","ñ","ò","ó","ô","õ","ö","ø","ù","ú","û","ü","ý","þ" >>

LowerChar(c) ==
    IF \E i \in 1..Len(Uppers) : Uppers[i] = c
    THEN Lowers[CHOOSE i \in 1..Len(Uppers) : Uppers[i] = c]
    ELSE c

\* of a character of Lowers (the others are not used in the inputs)
UpperChar(c) ==
    IF \E i \in 1..Len(Lowers) : Lowers[i] = c
    THEN Uppers[CHOOSE i \in 1..Len(Lowers) : Lowers[i] = c]
    ELSE c

\* str.lower()
Lower(s) == [i \in 1..Len(s) |-> LowerChar(s[i])]

\* str.upper(), used to build inputs only
Upper(s) == [i \in 1..Len(s) |-> UpperChar(s[i])]

\* the characters str.strip() removes: those of Latin-1 for which
\* str.isspace() holds (U+0009..U+000D, U+001C..U+001F, space, U+0085, U+00A0)
Whitespace ==
    {" ", "\t", "\n", "\r", "\f", "", "", "", "", "", "", " "}

SetMin(S) == CHOOSE x \in S : \A y \in S : x <= y
SetMax(S) == CHOOSE x \in S : \A y \in S : x >= y

\* str.strip()
Strip(s) ==
    LET keep == {i \in 1..Len(s) : s[i] \notin Whitespace}
    IN  IF keep = {} THEN <<>> ELSE SubSeq(s, SetMin(keep), SetMax(keep))

\* str.replace(old, new) for one-character old and new
Replace(s, old, new) == [i \in 1..Len(s) |-> IF s[i] = old THEN new ELSE s[i]]

\* the Python test `sub in s` on strings
Contains(sub, s) ==
    \E i \in 0..(Len(s) - Len(sub)) : SubSeq(s, i + 1, i + Len(sub)) = sub

\* the elements of a sequence
Range(seq) == {seq[i] : i \in 1..Len(seq)}

-----------------------------------------------------------------------------
(* database/taxonomy.py: the vocabularies and the migration tables, in     *)
(* definition order                                                        *)

ErrorCategory ==
    << <<"i","n","f","r","a","s","t","r","u","c","t","u","r","e">>,
       <<"n","e","t","w","o","r","k">>,
       <<"r","e","s","o","u","r","c","e">>,
       <<"t","i","m","e","o","u","t">>,
       <<"c","o","m","p","i","l","a","t","i","o","n">>,
       <<"s","y","n","t","a","x">>,
       <<"d","e","p","e","n","d","e","n","c","y">>,
       <<"r","u","n","t","i","m","e">>,
       <<"c","r","a","s","h">>,
       <<"a","s","s","e","r","t","i","o","n">>,
       <<"t","e","s","t","_","f","a","i","l","u","r","e">>,
       <<"f","l","a","k","y","_","t","e","s","t">>,
       <<"c","o","n","f","i","g","u","r","a","t","i","o","n">>,
       <<"p","e","r","m","i","s","s","i","o","n","s">>,
       <<"a","u","t","h","e","n","t","i","c","a","t","i","o","n">>,
       <<"d","e","p","l","o","y","m","e","n","t">>,
       <<"c","o","n","t","a","i","n","e","r">>,
       <<"d","a","t","a","b","a","s","e">>,
       <<"d","a","t","a","_","v","a","l","i","d","a","t","i","o","n">>,
       <<"u","n","k","n","o","w","n">>,
       <<"o","t","h","e","r">> >>

FailureType ==
    << <<"b","u","i","l","d","_","f","a","i","l","u","r","e">>,
       <<"c","o","m","p","i","l","a","t","i","o","n","_","e","r","r","o","r">>,
       <<"d","e","p","e","n","d","e","n","c","y","_","e","r","r","o","r">>,
       <<"u","n","i","t","_","t","e","s","t","_","f","a","i","l","u","r","e">>,
       <<"i","n","t","e","g","r","a","t","i","o","n","_","t","e","s","t","_","f","a","i","l","u","r","e">>,
       <<"e","2","e","_","t","e","s","t","_","f","a","i","l","u","r","e">>,
       <<"f","l","a","k","y","_","t","e","s","t">>,
       <<"i","n","f","r","a","s","t","r","u","c","t","u","r","e","_","f","a","i","l","u","r","e">>,
       <<"n","e","t","w","o","r","k","_","f","a","i","l","u","r","e">>,
       <<"r","e","s","o","u","r","c","e","_","e","x","h","a","u","s","t","i","o","n">>,
       <<"t","i","m","e","o","u","t">>,
       <<"d","e","p","l","o","y","m","e","n","t","_","f","a","i","l","u","r","e">>,
       <<"c","o","n","t","a","i","n","e","r","_","f","a","i","l","u","r","e">>,
       <<"i","m","a","g","e","_","p","u","l","l","_","f","a","i","l","u","r","e">>,
       <<"c","o","n","f","i","g","u","r","a","t","i","o","n","_","e","r","r","o","r">>,
       <<"a","u","t","h","e","n","t","i","c","a","t","i","o","n","_","f","a","i","l","u","r","e">>,
       <<"p","e","r","m","i","s","s","i","o","n","_","d","e","n","i","e","d">>,
       <<"a","p","p","l","i","c","a","t","i","o","n","_","c","r","a","s","h">>,
       <<"a","p","p","l","i","c","a","t","i","o","n","_","e","r","r","o","r">>,
       <<"u","n","k","n","o","w","n">>,
       <<"o","t","h","e","r">> >>

Severity ==
    << <<"c","r","i","t","i","c","a","l">>,
       <<"h","i","g","h">>,
       <<"m","e","d","i","u","m">>,
       <<"l","o","w">>,
       <<"i","n","f","o">> >>

ERROR_CATEGORY_MIGRATION_MAP ==
    << [key |-> <<"I","n","f","r","a","s","t","r","u","c","t","u","r","e","/","R","e","s","o","u","r","c","e"," ","M","a","n","a","g","e","m","e","n","t">>, val |-> <<"i","n","f","r","a","s","t","r","u","c","t","u","r","e">>],
       [key |-> <<"i","n","f","r","a","s","t","r","u","c","t","u","r","e">>, val |-> <<"i","n","f","r","a","s","t","r","u","c","t","u","r","e">>],
       [key |-> <<"i","n","f","r","a","s","t","r","u","c","t","u","r","e","_","o","r","_","d","e","p","l","o","y","m","e","n","t">>, val |-> <<"i","n","f","r","a","s","t","r","u","c","t","u","r","e">>],
       [key |-> <<"i","n","f","r","a">>, val |-> <<"i","n","f","r","a","s","t","r","u","c","t","u","r","e">>],
       [key |-> <<"n","e","t","w","o","r","k">>, val |-> <<"n","e","t","w","o","r","k">>],
       [key |-> <<"n","e","t","w","o","r","k","i","n","g">>, val |-> <<"n","e","t","w","o","r","k">>],
       [key |-> <<"d","n","s">>, val |-> <<"n","e","t","w","o","r","k">>],
       [key |-> <<"c","o","n","n","e","c","t","i","o","n">>, val |-> <<"n","e","t","w","o","r","k">>],
       [key |-> <<"t","i","m","e","o","u","t">>, val |-> <<"t","i","m","e","o","u","t">>],
       [key |-> <<"t","i","m","e","_","o","u","t">>, val |-> <<"t","i","m","e","o","u","t">>],
       [key |-> <<"t","i","m","e","d","_","o","u","t">>, val |-> <<"t","i","m","e","o","u","t">>],
       [key |-> <<"t","e","s","t">>, val |-> <<"t","e","s","t","_","f","a","i","l","u","r","e">>],
       [key |-> <<"t","e","s","t","_","f","a","i","l","u","r","e">>, val |-> <<"t","e","s","t","_","f","a","i","l","u","r","e">>],
       [key |-> <<"t","e","s","t","i","n","g">>, val |-> <<"t","e","s","t","_","f","a","i","l","u","r","e">>],
       [key |-> <<"f","l","a","k","y">>, val |-> <<"f","l","a","k","y","_","t","e","s","t">>],
       [key |-> <<"f","l","a","k","y","_","t","e","s","t">>, val |-> <<"f","l","a","k","y","_","t","e","s","t">>],
       [key |-> <<"b","u","i","l","d">>, val |-> <<"c","o","m","p","i","l","a","t","i","o","n">>],
       [key |-> <<"c","o","m","p","i","l","a","t","i","o","n">>, val |-> <<"c","o","m","p","i","l","a","t","i","o","n">>],
       [key |-> <<"c","o","m","p","i","l","e">>, val |-> <<"c","o","m","p","i","l","a","t","i","o","n">>],
       [key |-> <<"s","y","n","t","a","x">>, val |-> <<"s","y","n","t","a","x">>],
       [key |-> <<"r","u","n","t","i","m","e">>, val |-> <<"r","u","n","t","i","m","e">>],
       [key |-> <<"e","x","e","c","u","t","i","o","n">>, val |-> <<"r","u","n","t","i","m","e">>],
       [key |-> <<"c","r","a","s","h">>, val |-> <<"c","r","a","s","h">>],
       [key |-> <<"r","e","s","o","u","r","c","e">>, val |-> <<"r","e","s","o","u","r","c","e">>],
       [key |-> <<"r","e","s","o","u","r","c","e","_","e","x","h","a","u","s","t","i","o","n">>, val |-> <<"r","e","s","o","u","r","c","e">>],
       [key |-> <<"m","e","m","o","r","y">>, val |-> <<"r","e","s","o","u","r","c","e">>],
       [key |-> <<"d","i","s","k">>, val |-> <<"r","e","s","o","u","r","c","e">>],
       [key |-> <<"c","p","u">>, val |-> <<"r","e","s","o","u","r","c","e">>],
       [key |-> <<"c","o","n","f","i","g">>, val |-> <<"c","o","n","f","i","g","u","r","a","t","i","o","n">>],
       [key |-> <<"c","o","n","f","i","g","u","r","a","t","i","o","n">>, val |-> <<"c","o","n","f","i","g","u","r","a","t","i","o","n">>],
       [key |-> <<"m","i","s","c","o","n","f","i","g","u","r","a","t","i","o","n">>, val |-> <<"c","o","n","f","i","g","u","r","a","t","i","o","n">>],
       [key |-> <<"d","e","p","e","n","d","e","n","c","y">>, val |-> <<"d","e","p","e","n","d","e","n","c","y">>],
       [key |-> <<"d","e","p","e","n","d","e","n","c","i","e","s">>, val |-> <<"d","e","p","e","n","d","e","n","c","y">>],
       [key |-> <<"p","a","c","k","a","g","e">>, val |-> <<"d","e","p","e","n","d","e","n","c","y">>],
       [key |-> <<"d","e","p","l","o","y","m","e","n","t">>, val |-> <<"d","e","p","l","o","y","m","e","n","t">>],
       [key |-> <<"d","e","p","l","o","y">>, val |-> <<"d","e","p","l","o","y","m","e","n","t">>],
       [key |-> <<"c","o","n","t","a","i","n","e","r">>, val |-> <<"c","o","n","t","a","i","n","e","r">>],
       [key |-> <<"d","o","c","k","e","r">>, val |-> <<"c","o","n","t","a","i","n","e","r">>],
       [key |-> <<"p","o","d">>, val |-> <<"c","o","n","t","a","i","n","e","r">>],
       [key |-> <<"s","y","n","c","h","r","o","n","i","z","a","t","i","o","n">>, val |-> <<"r","u","n","t","i","m","e">>],
       [key |-> <<"s","y","n","c","h","r","o","n","i","z","a","t","i","o","n","_","f","a","i","l","u","r","e">>, val |-> <<"r","u","n","t","i","m","e">>],
       [key |-> <<"s","y","n","c">>, val |-> <<"r","u","n","t","i","m","e">>],
       [key |-> <<"a","u","t","h">>, val |-> <<"a","u","t","h","e","n","t","i","c","a","t","i","o","n">>],
       [key |-> <<"a","u","t","h","e","n","t","i","c","a","t","i","o","n">>, val |-> <<"a","u","t","h","e","n","t","i","c","a","t","i","o","n">>],
       [key |-> <<"p","e","r","m","i","s","s","i","o","n">>, val |-> <<"p","e","r","m","i","s","s","i","o","n","s">>],
       [key |-> <<"p","e","r","m","i","s","s","i","o","n","s">>, val |-> <<"p","e","r","m","i","s","s","i","o","n","s">>],
       [key |-> <<"d","a","t","a","b","a","s","e">>, val |-> <<"d","a","t","a","b","a","s","e">>],
       [key |-> <<"d","b">>, val |-> <<"d","a","t","a","b","a","s","e">>],
       [key |-> <<"s","q","l">>, val |-> <<"d","a","t","a","b","a","s","e">>],
       [key |-> <<"u","n","k","n","o","w","n">>, val |-> <<"u","n","k","n","o","w","n">>],
       [key |-> <<"o","t","h","e","r">>, val |-> <<"o","t","h","e","r">>] >>

FAILURE_TYPE_MIGRATION_MAP ==
    << [key |-> <<"i","n","f","r","a","s","t","r","u","c","t","u","r","e">>, val |-> <<"i","n","f","r","a","s","t","r","u","c","t","u","r","e","_","f","a","i","l","u","r","e">>],
       [key |-> <<"i","n","f","r","a">>, val |-> <<"i","n","f","r","a","s","t","r","u","c","t","u","r","e","_","f","a","i","l","u","r","e">>],
       [key |-> <<"i","n","f","r","a","s","t","r","u","c","t","u","r","e","_","f","a","i","l","u","r","e">>, val |-> <<"i","n","f","r","a","s","t","r","u","c","t","u","r","e","_","f","a","i","l","u","r","e">>],
       [key |-> <<"n","e","t","w","o","r","k">>, val |-> <<"n","e","t","w","o","r","k","_","f","a","i","l","u","r","e">>],
       [key |-> <<"n","e","t","w","o","r","k","_","f","a","i","l","u","r","e">>, val |-> <<"n","e","t","w","o","r","k","_","f","a","i","l","u","r","e">>],
       [key |-> <<"d","n","s","_","r","e","s","o","l","u","t","i","o","n","_","f","a","i","l","u","r","e">>, val |-> <<"n","e","t","w","o","r","k","_","f","a","i","l","u","r","e">>],
       [key |-> <<"d","n","s">>, val |-> <<"n","e","t","w","o","r","k","_","f","a","i","l","u","r","e">>],
       [key |-> <<"c","o","n","n","e","c","t","i","o","n","_","f","a","i","l","u","r","e">>, val |-> <<"n","e","t","w","o","r","k","_","f","a","i","l","u","r","e">>],
       [key |-> <<"t","i","m","e","o","u","t">>, val |-> <<"t","i","m","e","o","u","t">>],
       [key |-> <<"t","i","m","e","_","o","u","t">>, val |-> <<"t","i","m","e","o","u","t">>],
       [key |-> <<"t","i","m","e","d","_","o","u","t">>, val |-> <<"t","i","m","e","o","u","t">>],
       [key |-> <<"b","u","i","l","d">>, val |-> <<"b","u","i","l","d","_","f","a","i","l","u","r","e">>],
       [key |-> <<"b","u","i","l","d","_","f","a","i","l","u","r","e">>, val |-> <<"b","u","i","l","d","_","f","a","i","l","u","r","e">>],
       [key |-> <<"c","o","m","p","i","l","a","t","i","o","n">>, val |-> <<"c","o","m","p","i","l","a","t","i","o","n","_","e","r","r","o","r">>],
       [key |-> <<"c","o","m","p","i","l","a","t","i","o","n","_","e","r","r","o","r">>, val |-> <<"c","o","m","p","i","l","a","t","i","o","n","_","e","r","r","o","r">>],
       [key |-> <<"c","o","m","p","i","l","e","_","e","r","r","o","r">>, val |-> <<"c","o","m","p","i","l","a","t","i","o","n","_","e","r","r","o","r">>],
       [key |-> <<"t","e","s","t">>, val |-> <<"u","n","i","t","_","t","e","s","t","_","f","a","i","l","u","r","e">>],
       [key |-> <<"t","e","s","t","_","f","a","i","l","u","r","e">>, val |-> <<"u","n","i","t","_","t","e","s","t","_","f","a","i","l","u","r","e">>],
       [key |-> <<"u","n","i","t","_","t","e","s","t">>, val |-> <<"u","n","i","t","_","t","e","s","t","_","f","a","i","l","u","r","e">>],
       [key |-> <<"i","n","t","e","g","r","a","t","i","o","n","_","t","e","s","t">>, val |-> <<"i","n","t","e","g","r","a","t","i","o","n","_","t","e","s","t","_","f","a","i","l","u","r","e">>],
       [key |-> <<"e","2","e">>, val |-> <<"e","2","e","_","t","e","s","t","_","f","a","i","l","u","r","e">>],
       [key |-> <<"e","2","e","_","t","e","s","t">>, val |-> <<"e","2","e","_","t","e","s","t","_","f","a","i","l","u","r","e">>],
       [key |-> <<"f","l","a","k","y">>, val |-> <<"f","l","a","k","y","_","t","e","s","t">>],
       [key |-> <<"f","l","a","k","y","_","t","e","s","t">>, val |-> <<"f","l","a","k","y","_","t","e","s","t">>],
       [key |-> <<"r","e","s","o","u","r","c","e">>, val |-> <<"r","e","s","o","u","r","c","e","_","e","x","h","a","u","s","t","i","o","n">>],
       [key |-> <<"r","e","s","o","u","r","c","e","_","e","x","h","a","u","s","t","i","o","n">>, val |-> <<"r","e","s","o","u","r","c","e","_","e","x","h","a","u","s","t","i","o","n">>],
       [key |-> <<"r","e","s","o","u","r","c","e","_","n","o","t","_","f","o","u","n","d">>, val |-> <<"r","e","s","o","u","r","c","e","_","e","x","h","a","u","s","t","i","o","n">>],
       [key |-> <<"o","o","m">>, val |-> <<"r","e","s","o","u","r","c","e","_","e","x","h","a","u","s","t","i","o","n">>],
       [key |-> <<"o","u","t","_","o","f","_","m","e","m","o","r","y">>, val |-> <<"r","e","s","o","u","r","c","e","_","e","x","h","a","u","s","t","i","o","n">>],
       [key |-> <<"d","e","p","l","o","y","m","e","n","t">>, val |-> <<"d","e","p","l","o","y","m","e","n","t","_","f","a","i","l","u","r","e">>],
       [key |-> <<"d","e","p","l","o","y","m","e","n","t","_","f","a","i","l","u","r","e">>, val |-> <<"d","e","p","l","o","y","m","e","n","t","_","f","a","i","l","u","r","e">>],
       [key |-> <<"d","e","p","l","o","y","_","f","a","i","l","u","r","e">>, val |-> <<"d","e","p","l","o","y","m","e","n","t","_","f","a","i","l","u","r","e">>],
       [key |-> <<"c","o","n","t","a","i","n","e","r">>, val |-> <<"c","o","n","t","a","i","n","e","r","_","f","a","i","l","u","r","e">>],
       [key |-> <<"c","o","n","t","a","i","n","e","r","_","f","a","i","l","u","r","e">>, val |-> <<"c","o","n","t","a","i","n","e","r","_","f","a","i","l","u","r","e">>],
       [key |-> <<"p","o","d","_","f","a","i","l","u","r","e">>, val |-> <<"c","o","n","t","a","i","n","e","r","_","f","a","i","l","u","r","e">>],
       [key |-> <<"i","m","a","g","e","_","p","u","l","l">>, val |-> <<"i","m","a","g","e","_","p","u","l","l","_","f","a","i","l","u","r","e">>],
       [key |-> <<"a","p","p","l","i","c","a","t","i","o","n">>, val |-> <<"a","p","p","l","i","c","a","t","i","o","n","_","e","r","r","o","r">>],
       [key |-> <<"a","p","p","l","i","c","a","t","i","o","n","_","e","r","r","o","r">>, val |-> <<"a","p","p","l","i","c","a","t","i","o","n","_","e","r","r","o","r">>],
       [key |-> <<"a","p","p","l","i","c","a","t","i","o","n","_","d","e","g","r","a","d","e","d">>, val |-> <<"a","p","p","l","i","c","a","t","i","o","n","_","e","r","r","o","r">>],
       [key |-> <<"a","p","p","_","e","r","r","o","r">>, val |-> <<"a","p","p","l","i","c","a","t","i","o","n","_","e","r","r","o","r">>],
       [key |-> <<"c","r","a","s","h">>, val |-> <<"a","p","p","l","i","c","a","t","i","o","n","_","c","r","a","s","h">>],
       [key |-> <<"a","p","p","l","i","c","a","t","i","o","n","_","c","r","a","s","h">>, val |-> <<"a","p","p","l","i","c","a","t","i","o","n","_","c","r","a","s","h">>],
       [key |-> <<"c","o","n","f","i","g">>, val |-> <<"c","o","n","f","i","g","u","r","a","t","i","o","n","_","e","r","r","o","r">>],
       [key |-> <<"c","o","n","f","i","g","u","r","a","t","i","o","n">>, val |-> <<"c","o","n","f","i","g","u","r","a","t","i","o","n","_","e","r","r","o","r">>],
       [key |-> <<"c","o","n","f","i","g","u","r","a","t","i","o","n","_","e","r","r","o","r">>, val |-> <<"c","o","n","f","i","g","u","r","a","t","i","o","n","_","e","r","r","o","r">>],
       [key |-> <<"m","i","s","c","o","n","f","i","g","u","r","a","t","i","o","n">>, val |-> <<"c","o","n","f","i","g","u","r","a","t","i","o","n","_","e","r","r","o","r">>],
       [key |-> <<"a","u","t","h">>, val |-> <<"a","u","t","h","e","n","t","i","c","a","t","i","o","n","_","f","a","i","l","u","r","e">>],
       [key |-> <<"a","u","t","h","e","n","t","i","c","a","t","i","o","n">>, val |-> <<"a","u","t","h","e","n","t","i","c","a","t","i","o","n","_","f","a","i","l","u","r","e">>],
       [key |-> <<"a","u","t","h","e","n","t","i","c","a","t","i","o","n","_","f","a","i","l","u","r","e">>, val |-> <<"a","u","t","h","e","n","t","i","c","a","t","i","o","n","_","f","a","i","l","u","r","e">>],
       [key |-> <<"p","e","r","m","i","s","s","i","o","n">>, val |-> <<"p","e","r","m","i","s","s","i","o","n","_","d","e","n","i","e","d">>],
       [key |-> <<"p","e","r","m","i","s","s","i","o","n","_","d","e","n","i","e","d">>, val |-> <<"p","e","r","m","i","s","s","i","o","n","_","d","e","n","i","e","d">>],
       [key |-> <<"d","e","p","e","n","d","e","n","c","y">>, val |-> <<"d","e","p","e","n","d","e","n","c","y","_","e","r","r","o","r">>],
       [key |-> <<"d","e","p","e","n","d","e","n","c","y","_","e","r","r","o","r">>, val |-> <<"d","e","p","e","n","d","e","n","c","y","_","e","r","r","o","r">>],
       [key |-> <<"d","e","p","e","n","d","e","n","c","i","e","s">>, val |-> <<"d","e","p","e","n","d","e","n","c","y","_","e","r","r","o","r">>],
       [key |-> <<"u","n","k","n","o","w","n">>, val |-> <<"u","n","k","n","o","w","n">>],
       [key |-> <<"o","t","h","e","r">>, val |-> <<"o","t","h","e","r">>] >>

SEVERITY_MIGRATION_MAP ==
    << [key |-> <<"c","r","i","t","i","c","a","l">>, val |-> <<"c","r","i","t","i","c","a","l">>],
       [key |-> <<"h","i","g","h">>, val |-> <<"h","i","g","h">>],
       [key |-> <<"m","e","d","i","u","m">>, val |-> <<"m","e","d","i","u","m">>],
       [key |-> <<"m","e","d">>, val |-> <<"m","e","d","i","u","m">>],
       [key |-> <<"m","o","d","e","r","a","t","e">>, val |-> <<"m","e","d","i","u","m">>],
       [key |-> <<"l","o","w">>, val |-> <<"l","o","w">>],
       [key |-> <<"i","n","f","o">>, val |-> <<"i","n","f","o">>],
       [key |-> <<"i","n","f","o","r","m","a","t","i","o","n","a","l">>, val |-> <<"i","n","f","o">>] >>

UNKNOWN == <<"u","n","k","n","o","w","n">>
MEDIUM == <<"m","e","d","i","u","m">>

\* value.lower().strip().replace(" ", "_").replace("-", "_")
NormalizeSeparators(s) == Replace(Replace(Strip(Lower(s)), " ", "_"), "-", "_")

\* `normalized in MAP`
InMap(map, normalized) == \E i \in 1..Len(map) : map[i].key = normalized

\* MAP[normalized].value
MapGet(map, normalized) ==
    map[CHOOSE i \in 1..Len(map) : map[i].key = normalized].val

\* PartialMatches without `normalized in key`
PartialMatches_KeyInOnly(map, normalized) ==
    {i \in 1..Len(map) : Contains(map[i].key, normalized)}

\* the keys the partial-match loop accepts, as positions of MAP.items()
PartialMatches(map, normalized) ==
    {i \in 1..Len(map) :
        Contains(map[i].key, normalized) \/ Contains(normalized, map[i].key)}

\* normalize_error_category with the final `return ErrorCategory.UNKNOWN.value`
\* replaced by returning the normalized raw string
normalize_error_category_NoDefault(value) ==
    IF ~Truthy(value) THEN UNKNOWN
    ELSE LET normalized == NormalizeSeparators(value.str)
             partial == PartialMatches(ERROR_CATEGORY_MIGRATION_MAP, normalized)
         IN  IF normalized \in Range(ErrorCategory) THEN normalized
             ELSE IF InMap(ERROR_CATEGORY_MIGRATION_MAP, normalized)
                  THEN MapGet(ERROR_CATEGORY_MIGRATION_MAP, normalized)
             ELSE IF partial # {}
                  THEN ERROR_CATEGORY_MIGRATION_MAP[SetMin(partial)].val
             ELSE normalized

\* normalize_error_category with the partial-match loop returning the
\* matching key instead of enum_val.value
normalize_error_category_ReturnKey(value) ==
    IF ~Truthy(value) THEN UNKNOWN
    ELSE LET normalized == NormalizeSeparators(value.str)
             partial == PartialMatches(ERROR_CATEGORY_MIGRATION_MAP, normalized)
         IN  IF normalized \in Range(ErrorCategory) THEN normalized
             ELSE IF InMap(ERROR_CATEGORY_MIGRATION_MAP, normalized)
                  THEN MapGet(ERROR_CATEGORY_MIGRATION_MAP, normalized)
             ELSE IF partial # {}
                  THEN ERROR_CATEGORY_MIGRATION_MAP[SetMin(partial)].key
             ELSE UNKNOWN

\* normalize_error_category with `if not value` narrowed to `if value is None`
normalize_error_category_NoneOnly(value) ==
    IF ~value.some THEN UNKNOWN
    ELSE LET normalized == NormalizeSeparators(value.str)
             partial == PartialMatches(ERROR_CATEGORY_MIGRATION_MAP, normalized)
         IN  IF normalized \in Range(ErrorCategory) THEN normalized
             ELSE IF InMap(ERROR_CATEGORY_MIGRATION_MAP, normalized)
                  THEN MapGet(ERROR_CATEGORY_MIGRATION_MAP, normalized)
             ELSE IF partial # {}
                  THEN ERROR_CATEGORY_MIGRATION_MAP[SetMin(partial)].val
             ELSE UNKNOWN

normalize_error_category(value) ==
    IF ~Truthy(value) THEN UNKNOWN
    ELSE LET normalized == NormalizeSeparators(value.str)
             partial == PartialMatches(ERROR_CATEGORY_MIGRATION_MAP, normalized)
         IN  IF normalized \in Range(ErrorCategory) THEN normalized
             ELSE IF InMap(ERROR_CATEGORY_MIGRATION_MAP, normalized)
                  THEN MapGet(ERROR_CATEGORY_MIGRATION_MAP, normalized)
             ELSE IF partial # {}
                  THEN ERROR_CATEGORY_MIGRATION_MAP[SetMin(partial)].val
             ELSE UNKNOWN

normalize_failure_type(value) ==
    IF ~Truthy(value) THEN UNKNOWN
    ELSE LET normalized == NormalizeSeparators(value.str)
             partial == PartialMatches(FAILURE_TYPE_MIGRATION_MAP, normalized)
         IN  IF normalized \in Range(FailureType) THEN normalized
             ELSE IF InMap(FAILURE_TYPE_MIGRATION_MAP, normalized)
                  THEN MapGet(FAILURE_TYPE_MIGRATION_MAP, normalized)
             ELSE IF partial # {}
                  THEN FAILURE_TYPE_MIGRATION_MAP[SetMin(partial)].val
             ELSE UNKNOWN

normalize_severity(value) ==
    IF ~Truthy(value) THEN MEDIUM
    ELSE LET normalized == Strip(Lower(value.str))
         IN  IF normalized \in Range(Severity) THEN normalized
             ELSE IF InMap(SEVERITY_MIGRATION_MAP, normalized)
                  THEN MapGet(SEVERITY_MIGRATION_MAP, normalized)
             ELSE MEDIUM

-----------------------------------------------------------------------------
(* The normalizers' callers.  A caller holds a raw value, normalizes it,   *)
(* and may normalize the stored result again (database/migration.py        *)
(* re-normalizes the values already in the database).                      *)

MaxTaxLen == 3

RECURSIVE SeqsUpTo(_, _)
\* all sequences over S of length at most n
SeqsUpTo(S, n) ==
    IF n = 0 THEN {<<>>}
    ELSE LET shorter == SeqsUpTo(S, n - 1)
         IN  shorter \cup {Append(s, c) : s \in {t \in shorter : Len(t) = n - 1}, c \in S}


\* every canonical value and every migration-table key of the three vocabularies
TaxKnownStrings ==
    Range(ErrorCategory) \cup Range(FailureType) \cup Range(Severity)
    \cup {e.key : e \in Range(ERROR_CATEGORY_MIGRATION_MAP)}
    \cup {e.key : e \in Range(FAILURE_TYPE_MIGRATION_MAP)}
    \cup {e.key : e \in Range(SEVERITY_MIGRATION_MAP)}

\* free-form spellings of a known string: other case, padding, other
\* separators, a longer text around it, a fragment of it
Spellings(k) ==
    { k, Upper(k), <<" ">> \o k \o <<"\t">>,
      Replace(k, "_", " "), Replace(k, "_", "-"),
      k \o <<"_", "x">>, <<"x", " ">> \o k, Tail(k),
      <<"\f">> \o k \o <<" ">>, Replace(k, "e", "É") }

TaxInputs ==
    {None}
    \cup {Some(s) : s \in SeqsUpTo({"d", "n", "s", "b", "D", " ", "-"}, MaxTaxLen)}
    \cup {Some(s) : s \in UNION {Spellings(k) : k \in TaxKnownStrings}}
    \cup {Some(<<"\f">>), Some(<<" ", "">>)}

\* the argument of the next call: the raw value, then the previous result
TaxArg == IF tx_out = <<>> THEN tx_input ELSE Some(tx_out[Len(tx_out)])

TaxInit ==
    /\ tx_fn \in {"normalize_error_category", "normalize_failure_type", "normalize_severity"}
    /\ tx_input \in TaxInputs
    /\ tx_out = <<>>

NormalizeErrorCategory ==
    /\ tx_fn = "normalize_error_category"
    /\ Len(tx_out) < 2
    /\ tx_out' = Append(tx_out, normalize_error_category(TaxArg))
    /\ UNCHANGED <<tx_fn, tx_input>>
    /\ UNCHANGED outsideTax

NormalizeFailureType ==
    /\ tx_fn = "normalize_failure_type"
    /\ Len(tx_out) < 2
    /\ tx_out' = Append(tx_out, normalize_failure_type(TaxArg))
    /\ UNCHANGED <<tx_fn, tx_input>>
    /\ UNCHANGED outsideTax

NormalizeSeverity ==
    /\ tx_fn = "normalize_severity"
    /\ Len(tx_out) < 2
    /\ tx_out' = Append(tx_out, normalize_severity(TaxArg))
    /\ UNCHANGED <<tx_fn, tx_input>>
    /\ UNCHANGED outsideTax

TaxNext == NormalizeErrorCategory \/ NormalizeFailureType \/ NormalizeSeverity

\* the vocabulary of the normalizer in use, and its default member
TaxVocabulary ==
    CASE tx_fn = "normalize_error_category" -> Range(ErrorCategory)
      [] tx_fn = "normalize_failure_type" -> Range(FailureType)
      [] tx_fn = "normalize_severity" -> Range(Severity)

\* the designated default member of the normalizer in use
TaxDefault == IF tx_fn = "normalize_severity" THEN MEDIUM ELSE UNKNOWN

\* C1: every value a normalizer returns, for an absent input and for every
\* input string, is a member of its target vocabulary (the normalizers are
\* total: a call always produces such a value).
C1_NormalizationTotal ==
    \A i \in 1..Len(tx_out) : tx_out[i] \in TaxVocabulary

\* a free-form input outside the vocabulary that no table entry matched has
\* been normalized
C1_Witness ==
    /\ Len(tx_out) >= 1
    /\ Truthy(tx_input)
    /\ tx_input.str \notin TaxVocabulary
    /\ tx_fn = "normalize_error_category"
    /\ PartialMatches(ERROR_CATEGORY_MIGRATION_MAP, NormalizeSeparators(tx_input.str)) = {}
    /\ tx_out[1] = UNKNOWN

\* C2: normalizing a normalizer's result again returns the same value, and
\* an input that already is a canonical member value is returned unchanged.
C2_Idempotent ==
    /\ Len(tx_out) = 2 => tx_out[2] = tx_out[1]
    /\ (Len(tx_out) >= 1 /\ tx_input.some /\ tx_input.str \in TaxVocabulary)
           => tx_out[1] = tx_input.str

\* a free-form input was normalized to something else, and the result was
\* normalized again
C2_Witness ==
    /\ Len(tx_out) = 2
    /\ Truthy(tx_input)
    /\ tx_input.str \notin TaxVocabulary
    /\ tx_out[1] # tx_input.str
    /\ tx_out[1] # TaxDefault

\* C3: for each vocabulary the absent input and the empty string both
\* normalize to the designated default member (UNKNOWN, MEDIUM for Severity).
C3_EmptyIsDefault ==
    (Len(tx_out) >= 1 /\ tx_input \in {None, Some(<<>>)}) => tx_out[1] = TaxDefault

\* the empty string has been normalized
C3_Witness ==
    /\ Len(tx_out) >= 1
    /\ tx_input = Some(<<>>)
    /\ tx_out[1] = TaxDefault

\* the steps of normalize_error_category and normalize_failure_type, taken
\* over Severity's members, table and default
SeverityByCommonSteps(value) ==
    IF ~Truthy(value) THEN MEDIUM
    ELSE LET normalized == NormalizeSeparators(value.str)
             partial == PartialMatches(SEVERITY_MIGRATION_MAP, normalized)
         IN  IF normalized \in Range(Severity) THEN normalized
             ELSE IF InMap(SEVERITY_MIGRATION_MAP, normalized)
                  THEN MapGet(SEVERITY_MIGRATION_MAP, normalized)
             ELSE IF partial # {}
                  THEN SEVERITY_MIGRATION_MAP[SetMin(partial)].val
             ELSE MEDIUM

\* C25 (as the claim states it): normalize_severity performs the same steps
\* as the other two normalizers, including the collapsing of spaces and
\* hyphens to underscores and the substring fallback over its table, so a
\* severity that holds a table key as a substring maps to that key's member.
C25_SeveritySameSteps ==
    (tx_fn = "normalize_severity" /\ Len(tx_out) >= 1) =>
        tx_out[1] = SeverityByCommonSteps(tx_input)

\* a severity that is no member and no table key but holds the key
\* "critical" has been normalized to the default
C25_Witness ==
    /\ tx_fn = "normalize_severity"
    /\ Len(tx_out) >= 1
    /\ Truthy(tx_input)
    /\ Strip(Lower(tx_input.str)) \notin Range(Severity)
    /\ ~InMap(SEVERITY_MIGRATION_MAP, Strip(Lower(tx_input.str)))
    /\ Contains(SEVERITY_MIGRATION_MAP[1].key, Strip(Lower(tx_input.str)))
    /\ tx_out[1] = MEDIUM

\* the migration table of the normalizer in use
TaxMap ==
    CASE tx_fn = "normalize_error_category" -> ERROR_CATEGORY_MIGRATION_MAP
      [] tx_fn = "normalize_failure_type" -> FAILURE_TYPE_MIGRATION_MAP
      [] tx_fn = "normalize_severity" -> SEVERITY_MIGRATION_MAP

\* a occurs in b as a run of consecutive characters
OccursIn(a, b) ==
    \E at \in 0..(Len(b) - Len(a)) : \A c \in 1..Len(a) : b[at + c] = a[c]

\* the table positions whose key occurs in the text or holds it
RelatedKeys(text) ==
    {i \in 1..Len(TaxMap) : OccursIn(TaxMap[i].key, text) \/ OccursIn(text, TaxMap[i].key)}

\* C26: normalize_error_category and normalize_failure_type return a
\* normalized input that is a member value as it is; else the member of the
\* table key equal to it; else the member of the first key, in table order,
\* that occurs in the normalized input or holds it; and the default member
\* only when there is no such key.
C26_SubstringFallback ==
    (tx_fn # "normalize_severity" /\ Len(tx_out) >= 1 /\ Truthy(tx_input)) =>
        LET normalized == NormalizeSeparators(tx_input.str)
            exact == {i \in 1..Len(TaxMap) : TaxMap[i].key = normalized}
        IN  IF normalized \in TaxVocabulary THEN tx_out[1] = normalized
            ELSE IF exact # {} THEN \A i \in exact : tx_out[1] = TaxMap[i].val
            ELSE IF RelatedKeys(normalized) # {}
                 THEN \E i \in RelatedKeys(normalized) :
                          /\ \A j \in RelatedKeys(normalized) : i <= j
                          /\ tx_out[1] = TaxMap[i].val
            ELSE tx_out[1] = UNKNOWN

\* an input that is no member and no key was given the member of the first
\* of several related keys, and a later related key has another member
C26_Witness ==
    /\ tx_fn # "normalize_severity"
    /\ Len(tx_out) >= 1
    /\ Truthy(tx_input)
    /\ NormalizeSeparators(tx_input.str) \notin TaxVocabulary
    /\ ~InMap(TaxMap, NormalizeSeparators(tx_input.str))
    /\ \E i, j \in RelatedKeys(NormalizeSeparators(tx_input.str)) :
          /\ i < j
          /\ TaxMap[i].val # TaxMap[j].val
          /\ tx_out[1] = TaxMap[i].val

\* an input with no related key was given the default
C26_DefaultReached ==
    /\ tx_fn # "normalize_severity"
    /\ Len(tx_out) >= 1
    /\ Truthy(tx_input)
    /\ RelatedKeys(NormalizeSeparators(tx_input.str)) = {}
    /\ tx_out[1] = UNKNOWN

\* C27 (as the claim states it): an input made of whitespace only is
\* normalized by normalize_error_category and normalize_failure_type to the
\* default member UNKNOWN, as the empty string is.
C27_WhitespaceIsDefault ==
    (tx_fn # "normalize_severity" /\ Len(tx_out) >= 1 /\ tx_input.some
        /\ Strip(tx_input.str) = <<>>) => tx_out[1] = UNKNOWN

\* a single space has been normalized to the member of the first table key
C27_Witness ==
    /\ tx_fn # "normalize_severity"
    /\ Len(tx_out) >= 1
    /\ tx_input = Some(<<" ">>)
    /\ tx_out[1] = TaxMap[1].val
    /\ tx_out[1] # UNKNOWN

\* the normalizers' caller at rest (the other components' specifications)
TaxIdle ==
    /\ tx_fn = "normalize_error_category"
    /\ tx_input = None
    /\ tx_out = <<>>

-----------------------------------------------------------------------------
(* parsers/log_parser.py: LogStreamParser and create_log_context.  A log   *)
(* file is the sequence of its lines with the terminator of each; the      *)
(* passes over the file are modelled one line at a time.                   *)

\* error_patterns of LogStreamParser.extract_errors, in list order
error_patterns ==
    << <<"e","r","r","o","r",":">>,
       <<"e","r","r","o","r"," ">>,
       <<"e","x","c","e","p","t","i","o","n",":">>,
       <<"e","x","c","e","p","t","i","o","n"," ">>,
       <<"f","a","i","l","e","d",":">>,
       <<"f","a","i","l","e","d"," ">>,
       <<"f","a","i","l","u","r","e",":">>,
       <<"f","a","i","l","u","r","e"," ">>,
       <<"f","a","t","a","l",":">>,
       <<"f","a","t","a","l"," ">>,
       <<"p","a","n","i","c",":">>,
       <<"p","a","n","i","c"," ">>,
       <<"t","r","a","c","e","b","a","c","k">> >>

\* the inner `for pattern in error_patterns` loop: some pattern is in line.lower()
IsErrorLine(line) ==
    \E p \in 1..Len(error_patterns) : Contains(error_patterns[p], Lower(line))

RECURSIVE ExtractErrorsLoop_OneMore(_, _, _, _)
\* ExtractErrorsLoop with `len(errors) >= max_errors` written as `>`
ExtractErrorsLoop_OneMore(lines, i, errors, max_errors) ==
    IF i > Len(lines) THEN errors
    ELSE IF Len(errors) > max_errors THEN errors
    ELSE ExtractErrorsLoop_OneMore(lines, i + 1,
             IF IsErrorLine(lines[i]) THEN Append(errors, lines[i]) ELSE errors,
             max_errors)

RECURSIVE ExtractErrorsLoop(_, _, _, _)
\* the `for line in f` loop of extract_errors, from line i on
ExtractErrorsLoop(lines, i, errors, max_errors) ==
    IF i > Len(lines) THEN errors
    ELSE IF Len(errors) >= max_errors THEN errors
    ELSE ExtractErrorsLoop(lines, i + 1,
             IF IsErrorLine(lines[i]) THEN Append(errors, lines[i]) ELSE errors,
             max_errors)

\* LogStreamParser.extract_errors
extract_errors(file, max_errors) ==
    IF ~file.exists THEN <<>>
    ELSE ExtractErrorsLoop(file.lines, 1, <<>>, max_errors)

\* the characters U+0080..U+00FF, which UTF-8 encodes in two bytes
NonAscii ==
    {"","","","","","","","","","","","","","","","",
     "","","","","","","","","","","","","","","","",
     " ","¡","¢","£","¤","¥","¦","§","¨","©","ª","«","¬","­","®","¯",
     "°","±","²","³","´","µ","¶","·","¸","¹","º","»","¼","½","¾","¿",
     "À","Á","Â","Ã","Ä","Å","Æ","Ç","È","É","Ê","Ë","Ì","Í","Î","Ï",
     "Ð","Ñ","Ò","Ó","Ô","Õ","Ö","×","Ø","Ù","Ú","Û","Ü","Ý","Þ","ß",
     "à","á","â","ã","ä","å","æ","ç","è","é","ê","ë","ì","í","î","ï",
     "ð","ñ","ò","ó","ô","õ","ö","÷","ø","ù","ú","û","ü","ý","þ","ÿ"}

RECURSIVE SumLen(_, _, _)
\* the bytes of the file from line i on: the UTF-8 encoding of each line
\* followed by the line's terminator
SumLen(lines, ends, i) ==
    IF i > Len(lines) THEN 0
    ELSE Len(lines[i]) + Cardinality({k \in 1..Len(lines[i]) : lines[i][k] \in NonAscii})
             + Len(ends[i]) + SumLen(lines, ends, i + 1)

\* LogStreamParser.get_file_size: st_size, the length of the file in bytes
get_file_size(file) == IF ~file.exists THEN 0 ELSE SumLen(file.lines, file.ends, 1)

RECURSIVE SortedSeq(_)
\* sorted(...) of a set of integers
SortedSeq(S) ==
    IF S = {} THEN <<>> ELSE <<SetMin(S)>> \o SortedSeq(S \ {SetMin(S)})

Min2(a, b) == IF a <= b THEN a ELSE b

\* max_errors passed by create_log_context
ContextMaxErrors == 30

MaxLogLines == 4
MaxWindow == 2
MaxThreshold == 3
MaxErrors == 2

LineOk == <<"o","k">>
LineError == <<"E","R","R","O","R",":"," ","x">>
LineTwoMarkers == <<"F","a","t","a","l",":"," ","F","a","i","l","e","d"," ","x">>
LinePool == {LineOk, LineError}

MissingFile == [exists |-> FALSE, lines |-> <<>>, ends |-> <<>>]

\* the files of the pool: every sequence of pool lines each ended by "\n",
\* and short files, one with a character outside ASCII, whose lines end with
\* "\n" or "\r\n" and whose last line may have no terminator
LogFiles ==
    {MissingFile}
        \cup {[exists |-> TRUE, lines |-> l, ends |-> [i \in 1..Len(l) |-> <<"\n">>]] :
                 l \in SeqsUpTo(LinePool, MaxLogLines)}
        \cup {[exists |-> TRUE, lines |-> l,
               ends |-> [i \in 1..Len(l) |-> IF i = Len(l) /\ ~final THEN <<>> ELSE eol]] :
                 l \in {<<LineOk>>, <<<<"é">>>>, <<LineOk, LineError>>},
                 eol \in {<<"\n">>, <<"\r", "\n">>},
                 final \in BOOLEAN}


LogIdle ==
    /\ lg_pc = "start"
    /\ lg_pos = 0
    /\ lg_head = <<>>
    /\ lg_tail = <<>>
    /\ lg_total = 0
    /\ lg_numbers = <<>>
    /\ lg_sample_idx = 0
    /\ lg_middle = <<>>
    /\ lg_has_samples = FALSE
    /\ lg_opens = 0
    /\ lg_result = [returned |-> FALSE]

\* a call about to be made.  The files handed to extract_errors on its own
\* also hold a line with two markers, in mixed case
LogInit ==
    /\ \/ /\ lg_op = "create_log_context"
          /\ lg_file \in LogFiles
          /\ lg_head_lines \in 0..MaxWindow
          /\ lg_tail_lines \in 0..MaxWindow
          /\ lg_max_sample \in 0..MaxWindow
          /\ lg_threshold \in 0..MaxThreshold
          /\ lg_include_errors \in BOOLEAN
          /\ lg_max_errors = ContextMaxErrors
       \/ /\ lg_op = "extract_errors"
          /\ lg_file \in LogFiles \cup
                 {[exists |-> TRUE, lines |-> l, ends |-> [i \in 1..Len(l) |-> <<"\n">>]] :
                     l \in SeqsUpTo(LinePool \cup {LineTwoMarkers}, MaxLogLines)}
          /\ lg_head_lines = 0
          /\ lg_tail_lines = 0
          /\ lg_max_sample = 0
          /\ lg_threshold = 0
          /\ lg_include_errors = FALSE
          /\ lg_max_errors \in 0..MaxErrors
    /\ LogIdle

\* GetLogSummaryOpen without the `if not log_path.exists()` return
GetLogSummaryOpen_NoExistsCheck ==
    /\ lg_op = "create_log_context"
    /\ lg_pc = "start"
    /\ lg_pc' = "head"
    /\ lg_opens' = lg_opens + 1
    /\ UNCHANGED <<lg_pos, lg_head, lg_tail, lg_total>>
    /\ UNCHANGED <<lg_numbers, lg_sample_idx, lg_middle, lg_has_samples, lg_result>>
    /\ UNCHANGED logParams
    /\ UNCHANGED outsideLog

\* get_log_summary, lines 27-34: the missing-file return, or open the file
GetLogSummaryOpen ==
    /\ lg_op = "create_log_context"
    /\ lg_pc = "start"
    /\ IF ~lg_file.exists
       THEN /\ lg_pc' = "summary_done"
            /\ UNCHANGED lg_opens
       ELSE /\ lg_pc' = "head"
            /\ lg_opens' = lg_opens + 1
    /\ UNCHANGED <<lg_pos, lg_head, lg_tail, lg_total>>
    /\ UNCHANGED <<lg_numbers, lg_sample_idx, lg_middle, lg_has_samples, lg_result>>
    /\ UNCHANGED logParams
    /\ UNCHANGED outsideLog

\* get_log_summary, lines 35-40: one iteration of `for _ in range(head_lines)`
GetLogSummaryHead ==
    /\ lg_pc = "head"
    /\ IF Len(lg_head) >= lg_head_lines \/ lg_pos >= Len(lg_file.lines)
       THEN \* range exhausted, or readline() returned "" and the loop breaks
            /\ lg_pc' = "tail"
            /\ UNCHANGED <<lg_pos, lg_head, lg_total>>
       ELSE /\ lg_head' = Append(lg_head, lg_file.lines[lg_pos + 1])
            /\ lg_total' = lg_total + 1
            /\ lg_pos' = lg_pos + 1
            /\ UNCHANGED lg_pc
    /\ UNCHANGED <<lg_tail, lg_opens>>
    /\ UNCHANGED <<lg_numbers, lg_sample_idx, lg_middle, lg_has_samples, lg_result>>
    /\ UNCHANGED logParams
    /\ UNCHANGED outsideLog

\* GetLogSummaryTail with tail.pop() for tail.pop(0): the newest line is dropped
GetLogSummaryTail_DropNewest ==
    /\ lg_pc = "tail"
    /\ IF lg_pos >= Len(lg_file.lines)
       THEN /\ lg_pc' = "summary_done"
            /\ UNCHANGED <<lg_pos, lg_tail, lg_total>>
       ELSE /\ lg_total' = lg_total + 1
            /\ lg_tail' =
                   LET appended == Append(lg_tail, lg_file.lines[lg_pos + 1])
                   IN  IF Len(appended) > lg_tail_lines
                       THEN SubSeq(appended, 1, Len(appended) - 1) ELSE appended
            /\ lg_pos' = lg_pos + 1
            /\ UNCHANGED lg_pc
    /\ UNCHANGED <<lg_head, lg_opens>>
    /\ UNCHANGED <<lg_numbers, lg_sample_idx, lg_middle, lg_has_samples, lg_result>>
    /\ UNCHANGED logParams
    /\ UNCHANGED outsideLog

\* GetLogSummaryTail with `len(tail) > tail_lines` written as `>=`
GetLogSummaryTail_PopEarly ==
    /\ lg_pc = "tail"
    /\ IF lg_pos >= Len(lg_file.lines)
       THEN /\ lg_pc' = "summary_done"
            /\ UNCHANGED <<lg_pos, lg_tail, lg_total>>
       ELSE /\ lg_total' = lg_total + 1
            /\ lg_tail' =
                   LET appended == Append(lg_tail, lg_file.lines[lg_pos + 1])
                   IN  IF Len(appended) >= lg_tail_lines THEN Tail(appended) ELSE appended
            /\ lg_pos' = lg_pos + 1
            /\ UNCHANGED lg_pc
    /\ UNCHANGED <<lg_head, lg_opens>>
    /\ UNCHANGED <<lg_numbers, lg_sample_idx, lg_middle, lg_has_samples, lg_result>>
    /\ UNCHANGED logParams
    /\ UNCHANGED outsideLog

\* get_log_summary, lines 42-48: one iteration of `for line in f`, or the return
GetLogSummaryTail ==
    /\ lg_pc = "tail"
    /\ IF lg_pos >= Len(lg_file.lines)
       THEN /\ lg_pc' = "summary_done"
            /\ UNCHANGED <<lg_pos, lg_tail, lg_total>>
       ELSE /\ lg_total' = lg_total + 1
            /\ lg_tail' =
                   LET appended == Append(lg_tail, lg_file.lines[lg_pos + 1])
                   IN  IF Len(appended) > lg_tail_lines THEN Tail(appended) ELSE appended
            /\ lg_pos' = lg_pos + 1
            /\ UNCHANGED lg_pc
    /\ UNCHANGED <<lg_head, lg_opens>>
    /\ UNCHANGED <<lg_numbers, lg_sample_idx, lg_middle, lg_has_samples, lg_result>>
    /\ UNCHANGED logParams
    /\ UNCHANGED outsideLog

\* CreateLogContextSample drawing from range(middle_start, middle_end + 1)
CreateLogContextSample_IntoTail ==
    /\ lg_pc = "summary_done"
    /\ LET middle_start == lg_head_lines
           middle_end == lg_total - lg_tail_lines
           middle_region_size == middle_end - middle_start
           sample_count == Min2(lg_max_sample, middle_region_size)
       IN  IF lg_total > lg_threshold
           THEN /\ lg_has_samples' = TRUE
                /\ IF middle_region_size > 0
                   THEN /\ \E picked \in SUBSET (middle_start..middle_end) :
                              /\ Cardinality(picked) = sample_count
                              /\ lg_numbers' = SortedSeq(picked)
                        /\ lg_opens' = lg_opens + 1
                        /\ lg_pos' = 0
                        /\ lg_pc' = "sample"
                   ELSE /\ lg_pc' = "context"
                        /\ UNCHANGED <<lg_numbers, lg_opens, lg_pos>>
           ELSE /\ lg_pc' = "context"
                /\ UNCHANGED <<lg_has_samples, lg_numbers, lg_opens, lg_pos>>
    /\ UNCHANGED <<lg_head, lg_tail, lg_total, lg_sample_idx, lg_middle, lg_result>>
    /\ UNCHANGED logParams
    /\ UNCHANGED outsideLog

\* create_log_context, lines 142-156: the sampling decision and random.sample
CreateLogContextSample ==
    /\ lg_pc = "summary_done"
    /\ LET middle_start == lg_head_lines
           middle_end == lg_total - lg_tail_lines
           middle_region_size == middle_end - middle_start
           sample_count == Min2(lg_max_sample, middle_region_size)
       IN  IF lg_total > lg_threshold
           THEN /\ lg_has_samples' = TRUE
                /\ IF middle_region_size > 0
                   THEN /\ \E picked \in SUBSET (middle_start..(middle_end - 1)) :
                              /\ Cardinality(picked) = sample_count
                              /\ lg_numbers' = SortedSeq(picked)
                        /\ lg_opens' = lg_opens + 1
                        /\ lg_pos' = 0
                        /\ lg_pc' = "sample"
                   ELSE /\ lg_pc' = "context"
                        /\ UNCHANGED <<lg_numbers, lg_opens, lg_pos>>
           ELSE /\ lg_pc' = "context"
                /\ UNCHANGED <<lg_has_samples, lg_numbers, lg_opens, lg_pos>>
    /\ UNCHANGED <<lg_head, lg_tail, lg_total, lg_sample_idx, lg_middle, lg_result>>
    /\ UNCHANGED logParams
    /\ UNCHANGED outsideLog

\* create_log_context, lines 158-166: one iteration of the sampling pass
CreateLogContextSampleLine ==
    /\ lg_pc = "sample"
    /\ IF lg_pos >= Len(lg_file.lines) \/ lg_sample_idx >= Len(lg_numbers)
       THEN /\ lg_pc' = "context"
            /\ UNCHANGED <<lg_pos, lg_sample_idx, lg_middle>>
       ELSE /\ IF lg_pos = lg_numbers[lg_sample_idx + 1]
               THEN /\ lg_middle' = Append(lg_middle, lg_file.lines[lg_pos + 1])
                    /\ lg_sample_idx' = lg_sample_idx + 1
               ELSE UNCHANGED <<lg_middle, lg_sample_idx>>
            /\ lg_pos' = lg_pos + 1
            /\ UNCHANGED lg_pc
    /\ UNCHANGED <<lg_head, lg_tail, lg_total, lg_numbers, lg_has_samples, lg_opens, lg_result>>
    /\ UNCHANGED logParams
    /\ UNCHANGED outsideLog

\* create_log_context, lines 168-184: the context dictionary and the errors
CreateLogContextReturn ==
    /\ lg_pc = "context"
    /\ LET context ==
               [returned |-> TRUE,
                total_lines |-> lg_total,
                file_size_bytes |-> get_file_size(lg_file),
                head_lines |-> lg_head,
                tail_lines |-> lg_tail,
                middle_samples |-> lg_middle,
                has_samples |-> lg_has_samples,
                is_truncated |-> lg_total > (lg_head_lines + lg_tail_lines),
                has_errors |-> lg_include_errors,
                extracted_errors |->
                    IF lg_include_errors
                    THEN extract_errors(lg_file, lg_max_errors) ELSE <<>>,
                error_count |->
                    IF lg_include_errors
                    THEN Len(extract_errors(lg_file, lg_max_errors)) ELSE 0]
       IN  lg_result' = context
    /\ lg_opens' = IF lg_include_errors /\ lg_file.exists THEN lg_opens + 1 ELSE lg_opens
    /\ lg_pc' = "done"
    /\ UNCHANGED <<lg_pos, lg_head, lg_tail, lg_total>>
    /\ UNCHANGED <<lg_numbers, lg_sample_idx, lg_middle, lg_has_samples>>
    /\ UNCHANGED logParams
    /\ UNCHANGED outsideLog

\* LogStreamParser.extract_errors called on its own
ExtractErrors ==
    /\ lg_op = "extract_errors"
    /\ lg_pc = "start"
    /\ lg_result' = [returned |-> TRUE, errors |-> extract_errors(lg_file, lg_max_errors)]
    /\ lg_opens' = IF lg_file.exists THEN lg_opens + 1 ELSE lg_opens
    /\ lg_pc' = "done"
    /\ UNCHANGED <<lg_pos, lg_head, lg_tail, lg_total>>
    /\ UNCHANGED <<lg_numbers, lg_sample_idx, lg_middle, lg_has_samples>>
    /\ UNCHANGED logParams
    /\ UNCHANGED outsideLog

LogNext ==
    \/ GetLogSummaryOpen
    \/ GetLogSummaryHead
    \/ GetLogSummaryTail
    \/ CreateLogContextSample
    \/ CreateLogContextSampleLine
    \/ CreateLogContextReturn
    \/ ExtractErrors

\* get_log_summary has returned (to its caller create_log_context)
SummaryReturned == lg_op = "create_log_context" /\ lg_pc \in {"summary_done", "sample", "context", "done"}

\* the sampling pass of create_log_context is over
SamplingOver == lg_op = "create_log_context" /\ lg_pc \in {"context", "done"}

Max2(a, b) == IF a >= b THEN a ELSE b

\* C4: head never holds more than head_lines lines and tail never more than
\* tail_lines; and when the file has at most head_lines + tail_lines lines,
\* the returned head followed by the returned tail is exactly the file's line
\* sequence and the returned count is the number of lines of the file.
C4_SummaryWindows ==
    /\ Len(lg_head) <= lg_head_lines
    /\ Len(lg_tail) <= lg_tail_lines
    /\ (SummaryReturned /\ lg_total <= lg_head_lines + lg_tail_lines)
           => /\ lg_head \o lg_tail = lg_file.lines
              /\ lg_total = Len(lg_file.lines)

\* a file that fits the two windows and needed both of them has been summarized
C4_Witness ==
    /\ SummaryReturned
    /\ lg_file.exists
    /\ lg_total <= lg_head_lines + lg_tail_lines
    /\ lg_head_lines >= 1
    /\ Len(lg_file.lines) > lg_head_lines
    /\ Len(lg_tail) = Len(lg_file.lines) - lg_head_lines

\* the lines sampled from the middle are the lines at sample_line_numbers,
\* which are distinct, ascending, and at or after the head window and before
\* the tail window
SamplesBetweenWindows ==
    /\ Len(lg_middle) = Len(lg_numbers)
    /\ \A i \in 1..Len(lg_numbers) :
           /\ lg_numbers[i] >= lg_head_lines
           /\ lg_numbers[i] < lg_total - lg_tail_lines
           /\ lg_middle[i] = lg_file.lines[lg_numbers[i] + 1]
    /\ \A i, j \in 1..Len(lg_numbers) : i < j => lg_numbers[i] < lg_numbers[j]

\* C5 as stated: with total_lines > sample_threshold the context holds exactly
\* min(max_sample_lines, total_lines - head_lines - tail_lines) middle samples,
\* all from between the two windows.
C5_Original ==
    (SamplingOver /\ lg_total > lg_threshold)
        => /\ Len(lg_middle) = Min2(lg_max_sample, lg_total - lg_head_lines - lg_tail_lines)
           /\ SamplesBetweenWindows

\* C5, amended: with total_lines > sample_threshold the context holds exactly
\* max(0, min(max_sample_lines, total_lines - head_lines - tail_lines)) middle
\* samples (none when the two windows meet or overlap), all from between the
\* two windows.
C5_MiddleSampling ==
    (SamplingOver /\ lg_total > lg_threshold)
        => /\ Len(lg_middle) =
                  Max2(0, Min2(lg_max_sample, lg_total - lg_head_lines - lg_tail_lines))
           /\ SamplesBetweenWindows

\* a large file was sampled: fewer samples than the middle region has lines
C5_Witness ==
    /\ SamplingOver
    /\ lg_total > lg_threshold
    /\ Len(lg_middle) >= 1
    /\ Len(lg_middle) = lg_max_sample
    /\ lg_total - lg_head_lines - lg_tail_lines > lg_max_sample
    /\ lg_head_lines >= 1
    /\ lg_tail_lines >= 1

\* C21 (as the claim states it): one create_log_context call makes at most
\* two passes over the log file (each pass opens the file once and reads it
\* forward), whatever the file size and the options.
C21_AtMostTwoPasses == lg_op = "create_log_context" => lg_opens <= 2

\* a call with include_errors that sampled the middle of the file has
\* returned: the file was opened by get_log_summary, by the sampling pass and
\* by extract_errors
C21_Witness ==
    /\ lg_op = "create_log_context"
    /\ lg_pc = "done"
    /\ lg_include_errors
    /\ Len(lg_middle) >= 1
    /\ lg_opens = 3

\* C22: a missing log file is not an error and is never opened:
\* get_log_summary returns ([], [], 0), extract_errors returns an empty list,
\* and create_log_context returns a context with total_lines = 0,
\* file_size_bytes = 0, empty head, tail and middle samples, has_samples
\* false and is_truncated false.
C22_MissingFileIsEmpty ==
    ~lg_file.exists =>
        /\ lg_opens = 0
        /\ lg_pc \in {"start", "summary_done", "context", "done"}
        /\ SummaryReturned => (lg_head = <<>> /\ lg_tail = <<>> /\ lg_total = 0)
        /\ (lg_op = "extract_errors" /\ lg_pc = "done") => lg_result.errors = <<>>
        /\ (lg_op = "create_log_context" /\ lg_pc = "done") =>
              /\ lg_result.total_lines = 0
              /\ lg_result.file_size_bytes = 0
              /\ lg_result.head_lines = <<>>
              /\ lg_result.tail_lines = <<>>
              /\ lg_result.middle_samples = <<>>
              /\ ~lg_result.has_samples
              /\ ~lg_result.is_truncated
              /\ lg_result.extracted_errors = <<>>
              /\ lg_result.error_count = 0

\* create_log_context has returned a context for a missing file, with
\* include_errors and a sample_threshold of 0
C22_Witness ==
    /\ ~lg_file.exists
    /\ lg_op = "create_log_context"
    /\ lg_pc = "done"
    /\ lg_result.returned
    /\ lg_include_errors
    /\ lg_threshold = 0

\* extract_errors has returned for a missing file
C22_ExtractErrorsReached ==
    /\ ~lg_file.exists
    /\ lg_op = "extract_errors"
    /\ lg_pc = "done"
    /\ lg_result.returned

\* the 1-based positions of the lines of the file that hold, in any case, at
\* least one of the markers
MarkedPositions ==
    {i \in 1..Len(lg_file.lines) :
        \E p \in 1..Len(error_patterns) :
            \E at \in 1..Len(lg_file.lines[i]) :
                /\ at + Len(error_patterns[p]) - 1 <= Len(lg_file.lines[i])
                /\ \A c \in 1..Len(error_patterns[p]) :
                      LowerChar(lg_file.lines[i][at + c - 1]) = error_patterns[p][c]}

\* the first min(max_errors, k) of the k marked lines, in file order
FirstMarkedLines ==
    LET positions == SortedSeq(MarkedPositions)
    IN  [j \in 1..Min2(lg_max_errors, Len(positions)) |-> lg_file.lines[positions[j]]]

\* C23: extract_errors returns, in file order, exactly the first
\* min(max_errors, k) lines that hold a marker, k being the number of such
\* lines: never more than max_errors entries, and a line with several
\* markers once.
C23_FirstMarkedLines ==
    /\ (lg_op = "extract_errors" /\ lg_pc = "done") =>
          /\ lg_result.errors = FirstMarkedLines
          /\ Len(lg_result.errors) <= lg_max_errors
    /\ (lg_op = "create_log_context" /\ lg_pc = "done" /\ lg_include_errors) =>
          /\ lg_result.extracted_errors = FirstMarkedLines
          /\ lg_result.error_count = Len(FirstMarkedLines)

\* extract_errors stopped at max_errors on a file with more marked lines
\* than that, a line with two markers among those returned and an unmarked
\* line before the last one returned
C23_Witness ==
    /\ lg_op = "extract_errors"
    /\ lg_pc = "done"
    /\ lg_max_errors >= 2
    /\ Len(lg_result.errors) = lg_max_errors
    /\ Cardinality(MarkedPositions) > lg_max_errors
    /\ \E j \in 1..Len(lg_result.errors) : lg_result.errors[j] = LineTwoMarkers
    /\ lg_file.lines[1] = LineOk

\* C28: for a file of N lines get_log_summary returns as head the first
\* min(head_lines, N) lines and as tail the last
\* min(tail_lines, N - min(head_lines, N)) lines, in file order, with N as
\* the count: the tail is the end of the file and starts after the head; and
\* between two lines of the forward pass the buffer holds at most tail_lines
\* lines, all of them the lines read last.
C28_HeadAndTrueTail ==
    LET N == Len(lg_file.lines)
        head_count == Min2(lg_head_lines, N)
        tail_count == Min2(lg_tail_lines, N - head_count)
    IN  /\ Len(lg_tail) <= lg_tail_lines
        /\ lg_pc = "tail" =>
              lg_tail = SubSeq(lg_file.lines, lg_pos - Len(lg_tail) + 1, lg_pos)
        /\ SummaryReturned =>
              /\ lg_head = SubSeq(lg_file.lines, 1, head_count)
              /\ lg_tail = SubSeq(lg_file.lines, N - tail_count + 1, N)
              /\ lg_total = N
              /\ head_count + tail_count <= N

\* a file longer than the two windows together has been summarized: lines
\* were dropped from the buffer and the tail is the end of the file
C28_Witness ==
    /\ SummaryReturned
    /\ lg_head_lines >= 1
    /\ lg_tail_lines >= 1
    /\ Len(lg_file.lines) > lg_head_lines + lg_tail_lines + 1
    /\ Len(lg_tail) = lg_tail_lines
    /\ lg_tail[Len(lg_tail)] = lg_file.lines[Len(lg_file.lines)]
    /\ lg_tail[1] # lg_file.lines[lg_head_lines + 1]

\* a file shorter than head_lines + tail_lines has been summarized: the tail
\* holds only the lines after the head
C28_ShortFileReached ==
    /\ SummaryReturned
    /\ lg_head_lines >= 1
    /\ Len(lg_file.lines) > lg_head_lines
    /\ Len(lg_file.lines) < lg_head_lines + lg_tail_lines
    /\ Len(lg_tail) = Len(lg_file.lines) - lg_head_lines

\* the log sampler at rest (the other components' specifications)
LogIdleAll ==
    /\ lg_op = "create_log_context"
    /\ lg_file = MissingFile
    /\ lg_head_lines = 0
    /\ lg_tail_lines = 0
    /\ lg_max_sample = 0
    /\ lg_threshold = 0
    /\ lg_include_errors = FALSE
    /\ lg_max_errors = 0
    /\ LogIdle

-----------------------------------------------------------------------------
(* utils/semantic_clustering.py: SemanticClusterer.  Similarities and      *)
(* thresholds are exact numbers of hundredths (0.75 is 75); embeddings are *)
(* integer vectors of integer norm, so that the cosine similarity of any   *)
(* two of them is a whole number of hundredths.                            *)

\* the injected embedding provider: one fixed vector per text
Embedding ==
    [text \in {"dns lookup failed", "dns resolution failure", "cannot resolve host",
               "name server timeout", "disk quota exceeded", "dns lookup succeeded"} |->
        CASE text = "dns lookup failed" -> <<0, 0, 5>>
          [] text = "dns resolution failure" -> <<3, 0, 4>>
          [] text = "cannot resolve host" -> <<-3, 0, 4>>
          [] text = "name server timeout" -> <<0, 4, 3>>
          [] text = "disk quota exceeded" -> <<5, 0, 0>>
          [] text = "dns lookup succeeded" -> <<0, 0, -5>>]

Texts == DOMAIN Embedding

\* SemanticClusterer.get_embeddings: one row per text, in order
get_embeddings(texts) == [i \in 1..Len(texts) |-> Embedding[texts[i]]]

Dot(u, v) == u[1] * v[1] + u[2] * v[2] + u[3] * v[3]

\* np.linalg.norm of one row
Norm(v) == CHOOSE r \in 0..Dot(v, v) : r * r = Dot(v, v)

\* SemanticClusterer.cosine_similarity, in hundredths
cosine_similarity(embeddings) ==
    [i \in 1..Len(embeddings) |->
        [j \in 1..Len(embeddings) |->
            (100 * Dot(embeddings[i], embeddings[j]))
                \div (Norm(embeddings[i]) * Norm(embeddings[j]))]]

RECURSIVE GreedyClusters_NoAssign(_, _, _, _, _)
\* GreedyClusters without `assigned.add(j)` for the absorbed items
GreedyClusters_NoAssign(i, assigned, clusters, similarity, threshold) ==
    IF i > Len(similarity) THEN clusters
    ELSE IF i \in assigned
         THEN GreedyClusters_NoAssign(i + 1, assigned, clusters, similarity, threshold)
    ELSE LET absorbed == {j \in (i + 1)..Len(similarity) :
                              j \notin assigned /\ similarity[i][j] >= threshold}
         IN  GreedyClusters_NoAssign(i + 1, assigned \cup {i},
                                     Append(clusters, <<i>> \o SortedSeq(absorbed)),
                                     similarity, threshold)

RECURSIVE GreedyClusters_Inverted(_, _, _, _, _)
\* GreedyClusters with the comparison `similarity[i, j] >= threshold` inverted
GreedyClusters_Inverted(i, assigned, clusters, similarity, threshold) ==
    IF i > Len(similarity) THEN clusters
    ELSE IF i \in assigned
         THEN GreedyClusters_Inverted(i + 1, assigned, clusters, similarity, threshold)
    ELSE LET absorbed == {j \in (i + 1)..Len(similarity) :
                              j \notin assigned /\ similarity[i][j] <= threshold}
         IN  GreedyClusters_Inverted(i + 1, assigned \cup {i} \cup absorbed,
                                     Append(clusters, <<i>> \o SortedSeq(absorbed)),
                                     similarity, threshold)

RECURSIVE GreedyClusters_Strict(_, _, _, _, _)
\* GreedyClusters with `similarity[i, j] > threshold` for `>=`
GreedyClusters_Strict(i, assigned, clusters, similarity, threshold) ==
    IF i > Len(similarity) THEN clusters
    ELSE IF i \in assigned
         THEN GreedyClusters_Strict(i + 1, assigned, clusters, similarity, threshold)
    ELSE LET absorbed == {j \in (i + 1)..Len(similarity) :
                              j \notin assigned /\ similarity[i][j] > threshold}
         IN  GreedyClusters_Strict(i + 1, assigned \cup {i} \cup absorbed,
                                   Append(clusters, <<i>> \o SortedSeq(absorbed)),
                                   similarity, threshold)

RECURSIVE GreedyClusters(_, _, _, _, _)
\* the `for i in range(len(texts))` loop of cluster_failures, from index i on
\* (indices are 1-based here); returns `clusters`, the lists of indices
GreedyClusters(i, assigned, clusters, similarity, threshold) ==
    IF i > Len(similarity) THEN clusters
    ELSE IF i \in assigned
         THEN GreedyClusters(i + 1, assigned, clusters, similarity, threshold)
    ELSE LET absorbed == {j \in (i + 1)..Len(similarity) :
                              j \notin assigned /\ similarity[i][j] >= threshold}
         IN  GreedyClusters(i + 1, assigned \cup {i} \cup absorbed,
                            Append(clusters, <<i>> \o SortedSeq(absorbed)),
                            similarity, threshold)

RECURSIVE SumCounts(_, _)
\* sum(f.get("count", 1) for f in cluster_failures)
SumCounts(failures, i) ==
    IF i > Len(failures) THEN 0 ELSE failures[i].count + SumCounts(failures, i + 1)

RECURSIVE SumOver(_, _)
\* the sum of f[p] over p in P
SumOver(f, P) ==
    IF P = {} THEN 0
    ELSE LET p == CHOOSE q \in P : TRUE
         IN  f[p] + SumOver(f, P \ {p})

\* cluster_sims: similarity[indices[i], indices[j]] for i < j, in loop order
ClusterSims(indices, similarity) ==
    LET pairs == {<<i, j>> \in (1..Len(indices)) \X (1..Len(indices)) : i < j}
    IN  [p \in pairs |-> similarity[indices[p[1]]][indices[p[2]]]]

\* AvgSimilarity over the pairs that hold the seed only
AvgSimilarity_ToSeed(indices, similarity) ==
    IF Len(indices) > 1
    THEN [num |-> SumOver([k \in 2..Len(indices) |-> similarity[indices[1]][indices[k]]],
                          2..Len(indices)),
          den |-> Len(indices) - 1]
    ELSE [num |-> 100, den |-> 1]

\* avg_similarity as the exact fraction num / den of hundredths:
\* np.mean(cluster_sims), or 1.0 for a single member
AvgSimilarity(indices, similarity) ==
    IF Len(indices) > 1
    THEN LET sims == ClusterSims(indices, similarity)
         IN  [num |-> SumOver(sims, DOMAIN sims), den |-> Cardinality(DOMAIN sims)]
    ELSE [num |-> 100, den |-> 1]

\* one SemanticCluster, lines 199-224
MakeCluster(cluster_id, indices, failures, similarity) ==
    LET cluster_failures_ == [k \in 1..Len(indices) |-> failures[indices[k]]]
    IN  [cluster_id |-> cluster_id,
         representative_text |-> cluster_failures_[1].root_cause,
         items |-> cluster_failures_,
         total_count |-> SumCounts(cluster_failures_, 1),
         avg_similarity |-> AvgSimilarity(indices, similarity)]

\* SortByTotalCountDesc without the sort
SortByTotalCountDesc_Unsorted(cs) == cs

RECURSIVE SortByTotalCountDesc(_)
\* list.sort(key=lambda c: c.total_count, reverse=True): stable, so clusters
\* of equal total_count keep their order
SortByTotalCountDesc(cs) ==
    IF cs = <<>> THEN <<>>
    ELSE LET front == SortByTotalCountDesc(SubSeq(cs, 1, Len(cs) - 1))
             last == cs[Len(cs)]
             before == {k \in 1..Len(front) : front[k].total_count >= last.total_count}
             at == IF before = {} THEN 0 ELSE SetMax(before)
         IN  SubSeq(front, 1, at) \o <<last>> \o SubSeq(front, at + 1, Len(front))

\* the index lists `clusters` that cluster_failures builds, lines 178-196
cluster_indices(failures, similarity_threshold) ==
    LET texts == [i \in 1..Len(failures) |-> failures[i].root_cause]
        similarity == cosine_similarity(get_embeddings(texts))
    IN  GreedyClusters(1, {}, <<>>, similarity, similarity_threshold)

\* SemanticClusterer.cluster_failures (cluster_id counts from 0)
cluster_failures(failures, similarity_threshold) ==
    IF failures = <<>> THEN <<>>
    ELSE LET texts == [i \in 1..Len(failures) |-> failures[i].root_cause]
             similarity == cosine_similarity(get_embeddings(texts))
             clusters == GreedyClusters(1, {}, <<>>, similarity, similarity_threshold)
             semantic_clusters ==
                 [c \in 1..Len(clusters) |->
                     MakeCluster(c - 1, clusters[c], failures, similarity)]
         IN  SortByTotalCountDesc(semantic_clusters)

MaxItems == 4

\* similarity_threshold of SemanticClusterer.__init__ and cluster_root_causes
DefaultThreshold == 75

Counts == {1, 2}

\* the lists of root causes handed to the clusterer: distinct texts (the
\* caller groups by root_cause), each with its number of occurrences
FailureLists ==
    {fs \in SeqsUpTo([root_cause : Texts, count : Counts], MaxItems) :
        \A i, j \in 1..Len(fs) : i # j => fs[i].root_cause # fs[j].root_cause}

ClusterIdle ==
    /\ cl_threshold = DefaultThreshold
    /\ cl_calls = 0
    /\ cl_result = <<>>
    /\ cl_prev_threshold = DefaultThreshold
    /\ cl_prev_result = <<>>

ClusterIdleAll ==
    /\ cl_failures = <<>>
    /\ ClusterIdle

ClusterInit ==
    /\ cl_failures \in FailureLists
    /\ ClusterIdle

\* cluster_root_causes(root_causes, similarity_threshold = t): a clusterer is
\* built with threshold t and clusters the list; the caller keeps the
\* previous call's threshold and result, and may cluster the list once more
\* with a higher threshold
ClusterRootCauses ==
    /\ cl_calls < 2
    /\ \E t \in {0, 50, DefaultThreshold, 100} :
           /\ cl_calls = 1 => t > cl_threshold
           /\ cl_threshold' = t
           /\ cl_result' = cluster_failures(cl_failures, t)
    /\ cl_calls' = cl_calls + 1
    /\ cl_prev_threshold' = cl_threshold
    /\ cl_prev_result' = cl_result
    /\ UNCHANGED cl_failures
    /\ UNCHANGED outsideCluster

ClusterNext == ClusterRootCauses

RECURSIVE SumTotalCounts(_, _)
\* sum(cluster.total_count for cluster in clusters)
SumTotalCounts(clusters, i) ==
    IF i > Len(clusters) THEN 0 ELSE clusters[i].total_count + SumTotalCounts(clusters, i + 1)

\* C6: the total_count values of the clusters cluster_failures returns add
\* up to the sum of the count values of the input items.
C6_CountConservation ==
    cl_calls >= 1 => SumTotalCounts(cl_result, 1) = SumCounts(cl_failures, 1)

\* a list was clustered into a cluster of several items and at least one more
C6_Witness ==
    /\ cl_calls >= 1
    /\ Len(cl_result) >= 2
    /\ \E c \in 1..Len(cl_result) : Len(cl_result[c].items) >= 2
    /\ \E i, j \in 1..Len(cl_failures) : cl_failures[i].count # cl_failures[j].count

\* the texts of the cluster seeded by the first item (cluster_id 0)
FirstSeedCluster(clusters) ==
    UNION {{clusters[c].items[k].root_cause : k \in 1..Len(clusters[c].items)} :
               c \in {d \in 1..Len(clusters) : clusters[d].cluster_id = 0}}

\* the same list was clustered twice, the second time with a higher threshold
ThresholdRaised == cl_calls = 2 /\ cl_threshold > cl_prev_threshold

\* C7 as stated: for a fixed list, raising similarity_threshold never
\* increases the number of clusters.
C7_Original ==
    ThresholdRaised => Len(cl_result) <= Len(cl_prev_result)

\* C7, amended: for a fixed list, raising similarity_threshold never adds a
\* member to the cluster seeded by the first item, and for a list of at most
\* three items it never decreases the number of clusters.  (From four items
\* on the number of clusters is monotone in neither direction: a seed that
\* loses a member can leave it to absorb later items.)
C7_ThresholdMonotone ==
    ThresholdRaised =>
        /\ FirstSeedCluster(cl_result) \subseteq FirstSeedCluster(cl_prev_result)
        /\ Len(cl_failures) <= 3 => Len(cl_result) >= Len(cl_prev_result)

\* the threshold was raised and a cluster split
C7_Witness ==
    /\ ThresholdRaised
    /\ Len(cl_result) > Len(cl_prev_result)
    /\ FirstSeedCluster(cl_result) # FirstSeedCluster(cl_prev_result)

\* with four items, raising the threshold can also decrease the number of
\* clusters (reached, so that neither direction of monotonicity holds)
C7_FewerClustersReached ==
    /\ ThresholdRaised
    /\ Len(cl_result) < Len(cl_prev_result)

\* the position in the clustered list of the item with this text (the texts
\* of a list are distinct)
InputIndex(text) == CHOOSE i \in 1..Len(cl_failures) : cl_failures[i].root_cause = text

\* the cosine similarity, in hundredths, of two texts of the clustered list
TextSimilarity(a, b) ==
    (100 * Dot(Embedding[a], Embedding[b])) \div (Norm(Embedding[a]) * Norm(Embedding[b]))

MemberTexts(cluster) == {cluster.items[k].root_cause : k \in 1..Len(cluster.items)}

\* C16: cluster_failures returns the result of the greedy seed scan: every
\* input item is in exactly one cluster; a cluster's first item is its seed,
\* the member of smallest input index, and gives representative_text; every
\* other member has similarity >= threshold to the seed (nothing is required
\* between members); and an item is never similar enough to the seed of a
\* cluster seeded before its own, so it joined the earliest seed that
\* accepts it or seeded its own cluster.
C16_GreedySeedScan ==
    cl_calls >= 1 =>
        /\ \A i \in 1..Len(cl_failures) :
              Cardinality({c \in 1..Len(cl_result) :
                  \E k \in 1..Len(cl_result[c].items) :
                      cl_result[c].items[k] = cl_failures[i]}) = 1
        /\ SumOver([c \in 1..Len(cl_result) |-> Len(cl_result[c].items)],
                   1..Len(cl_result)) = Len(cl_failures)
        /\ \A c \in 1..Len(cl_result) :
              LET seed == cl_result[c].items[1].root_cause
              IN  /\ cl_result[c].representative_text = seed
                  /\ \A k \in 2..Len(cl_result[c].items) :
                        /\ InputIndex(cl_result[c].items[k].root_cause) > InputIndex(seed)
                        /\ TextSimilarity(seed, cl_result[c].items[k].root_cause)
                               >= cl_threshold
                  /\ \A d \in 1..Len(cl_result) :
                        InputIndex(cl_result[d].items[1].root_cause) < InputIndex(seed) =>
                            \A x \in MemberTexts(cl_result[c]) :
                                TextSimilarity(cl_result[d].items[1].root_cause, x)
                                    < cl_threshold

\* a clustering with a cluster of three members two of which are less
\* similar to each other than the threshold, and a later seed
C16_Witness ==
    /\ cl_calls >= 1
    /\ Len(cl_result) >= 2
    /\ \E c \in 1..Len(cl_result) :
          /\ Len(cl_result[c].items) >= 3
          /\ \E x, y \in MemberTexts(cl_result[c]) :
                x # y /\ TextSimilarity(x, y) < cl_threshold

\* C17: the clusters are returned in non-increasing order of total_count,
\* and an empty list gives an empty result.
C17_SortedByTotalCount ==
    cl_calls >= 1 =>
        /\ \A k \in 1..(Len(cl_result) - 1) :
              cl_result[k].total_count >= cl_result[k + 1].total_count
        /\ cl_failures = <<>> => cl_result = <<>>

\* a clustering in which the sort moved a later cluster in front of an
\* earlier one of smaller total_count
C17_Witness ==
    /\ cl_calls >= 1
    /\ \E k \in 1..(Len(cl_result) - 1) :
          /\ cl_result[k].cluster_id > cl_result[k + 1].cluster_id
          /\ cl_result[k].total_count > cl_result[k + 1].total_count

\* the unordered pairs of distinct members of a cluster
MemberPairs(cluster) ==
    {P \in SUBSET MemberTexts(cluster) : Cardinality(P) = 2}

PairSimilarity(P) == LET a == CHOOSE x \in P : TRUE IN TextSimilarity(a, CHOOSE y \in P \ {a} : TRUE)

\* C18: avg_similarity is exactly 1.0 for a cluster of one member, and
\* otherwise the mean of the similarities of all unordered pairs of distinct
\* members.
C18_AvgPairwiseSimilarity ==
    cl_calls >= 1 =>
        \A c \in 1..Len(cl_result) :
            LET avg == cl_result[c].avg_similarity
                pairs == MemberPairs(cl_result[c])
            IN  IF Len(cl_result[c].items) = 1
                THEN avg.num = 100 * avg.den
                ELSE avg.num * Cardinality(pairs)
                        = avg.den * SumOver([P \in pairs |-> PairSimilarity(P)], pairs)

\* a clustering with a single-member cluster and a cluster of three members
\* whose pairwise similarities differ
C18_Witness ==
    /\ cl_calls >= 1
    /\ \E c \in 1..Len(cl_result) : Len(cl_result[c].items) = 1
    /\ \E c \in 1..Len(cl_result) :
          /\ Len(cl_result[c].items) = 3
          /\ \E P, Q \in MemberPairs(cl_result[c]) : PairSimilarity(P) # PairSimilarity(Q)

\* C19 (as the claim states it): every returned cluster's avg_similarity
\* lies in [0, 1].
C19_AvgInUnitInterval ==
    cl_calls >= 1 =>
        \A c \in 1..Len(cl_result) :
            /\ cl_result[c].avg_similarity.num >= 0
            /\ cl_result[c].avg_similarity.num <= 100 * cl_result[c].avg_similarity.den

\* a clustering at threshold 0 with a cluster whose avg_similarity is negative
C19_Witness ==
    /\ cl_calls >= 1
    /\ cl_threshold = 0
    /\ \E c \in 1..Len(cl_result) : cl_result[c].avg_similarity.num < 0

-----------------------------------------------------------------------------
(* parsers/prow_structure.py: ProwStructureParser.  The log tree is a value:*)
(* the root directory has a listing (the names iterdir() returns, in order) *)
(* and the content found under each name.  Names are strs (sequences of     *)
(* characters) and a path is the sequence of its components.                *)

\* a value json.load returns for a field of finished.json:
\*   "bool" and "string" with their value, "null";
\*   "number" with an integer value of at most 31 bits;
\*   "number_e" with value e >= 10, the number 10^e that JSON writes 1e<e>;
\*   "nan", the float that JSON's NaN is read as;
\*   "array" and "object", the value telling whether it has elements
Json(type, value) == [type |-> type, value |-> value]

\* Python truthiness of a value read from JSON
JsonTruthy(v) ==
    CASE v.type = "bool" -> v.value
      [] v.type = "number" -> v.value # 0
      [] v.type \in {"number_e", "nan"} -> TRUE
      [] v.type = "string" -> v.value # ""
      [] v.type \in {"array", "object"} -> v.value
      [] OTHER -> FALSE

\* what datetime.fromtimestamp does with the value (local time UTC): "ok",
\* or the exception it raises.  The year must be at most 9999, that is the
\* value less than 253402300800 (10^11 is, 10^12 is not); from 10^17 on
\* localtime fails (the year exceeds 31 bits), from 10^19 on the value
\* exceeds time_t (63 bits).
fromtimestamp(timestamp) ==
    CASE timestamp.type \in {"number", "bool"} -> "ok"
      [] timestamp.type = "number_e" ->
            IF timestamp.value <= 11 THEN "ok"
            ELSE IF timestamp.value <= 16 THEN "ValueError"
            ELSE IF timestamp.value <= 18 THEN "OSError"
            ELSE "OverflowError"
      [] timestamp.type = "nan" -> "ValueError"
      [] OTHER -> "TypeError"

\* a file that may not exist; a finished.json holds invalid JSON, or a JSON
\* value that is an object (a mapping from keys to JSON values) or not
AbsentFile == [kind |-> "absent"]
JsonObjectFile(fields) == [kind |-> "json", is_object |-> TRUE, fields |-> fields]

\* data.get(key, default) on a JSON object
JsonGet(fields, key, default) == IF key \in DOMAIN fields THEN fields[key] ELSE default

\* Optional[ProwFinishedMetadata]: None
NoMetadata == [present |-> FALSE]

\* ProwStructureParser.parse_finished_json on the file's content:
\*   outcome "none"    the file does not exist, None
\*   outcome "warning" JSONDecodeError / KeyError / ValueError caught, None
\*   outcome "raise"   an exception the except clause does not catch
\*                     (data.get on a non-object; TypeError, OSError or
\*                     OverflowError of fromtimestamp)
\*   outcome "ok"      a ProwFinishedMetadata
parse_finished_json(file) ==
    IF file.kind = "absent" THEN [outcome |-> "none", metadata |-> NoMetadata]
    ELSE IF file.kind = "invalid_json" THEN [outcome |-> "warning", metadata |-> NoMetadata]
    ELSE IF ~file.is_object THEN [outcome |-> "raise", metadata |-> NoMetadata]
    ELSE LET timestamp == JsonGet(file.fields, "timestamp", Json("number", 0))
             passed == JsonGet(file.fields, "passed", Json("bool", FALSE))
             result == JsonGet(file.fields, "result", Json("string", "UNKNOWN"))
             revision == JsonGet(file.fields, "revision", Json("null", 0))
             metadata_dict == JsonGet(file.fields, "metadata", Json("null", 0))
         IN  IF fromtimestamp(timestamp) = "ValueError"
             THEN [outcome |-> "warning", metadata |-> NoMetadata]
             ELSE IF fromtimestamp(timestamp) # "ok"
             THEN [outcome |-> "raise", metadata |-> NoMetadata]
             ELSE [outcome |-> "ok",
                   metadata |-> [present |-> TRUE,
                                 timestamp |-> timestamp,
                                 passed |-> passed,
                                 result |-> result,
                                 revision |-> revision,
                                 metadata |-> metadata_dict]]

\* `x.metadata and not x.metadata.passed`
ReportsFailure(metadata) == metadata.present /\ ~JsonTruthy(metadata.passed)

\* Optional[Path]: None
NoPath == <<>>

\* the conventional names
FileName ==
    [artifacts |-> <<"a", "r", "t", "i", "f", "a", "c", "t", "s">>,
     finished |-> <<"f", "i", "n", "i", "s", "h", "e", "d", ".", "j", "s", "o", "n">>,
     build_log |-> <<"b", "u", "i", "l", "d", "-", "l", "o", "g", ".", "t", "x", "t">>,
     sidecar |-> <<"s", "i", "d", "e", "c", "a", "r", "-", "l", "o", "g", "s", ".",
                   "j", "s", "o", "n">>,
     latest_build |-> <<"l", "a", "t", "e", "s", "t", "-", "b", "u", "i", "l", "d", ".",
                        "t", "x", "t">>]

\* what a loop over a directory's entries has appended, given what the body
\* appends for each entry
RECURSIVE Flatten(_)
Flatten(appended) ==
    IF Len(appended) = 0 THEN <<>> ELSE Head(appended) \o Flatten(Tail(appended))

\* the loop body of find_steps_in_stage for one entry of the stage directory:
\* <<>> when the entry is skipped, else the one ProwStepInfo
StepOf(stage_path, stage_name, item) ==
    IF ~item.is_dir THEN <<>>
    ELSE IF ~item.has_build_log THEN <<>>
    ELSE << [step_name |-> item.name,
             stage_name |-> stage_name,
             build_log_path |-> stage_path \o <<item.name, FileName.build_log>>,
             finished_json_path |->
                 IF item.finished.kind # "absent"
                 THEN stage_path \o <<item.name, FileName.finished>> ELSE NoPath,
             sidecar_logs_path |->
                 IF item.has_sidecar
                 THEN stage_path \o <<item.name, FileName.sidecar>> ELSE NoPath,
             has_finished_json |-> item.finished.kind # "absent",
             has_sidecar_logs |-> item.has_sidecar,
             metadata |-> parse_finished_json(item.finished).metadata] >>

\* ProwStructureParser.find_steps_in_stage
find_steps_in_stage(stage_path, stage_name, stage_dir) ==
    IF ~stage_dir.is_dir THEN <<>>
    ELSE Flatten([i \in 1..Len(stage_dir.items) |->
                     StepOf(stage_path, stage_name, stage_dir.items[i])])

\* StageOf without `if steps or finished_json_path.exists()`
StageOf_KeepAll(artifacts_path, item) ==
    IF ~item.is_dir THEN <<>>
    ELSE LET stage_path == Append(artifacts_path, item.name)
             steps == find_steps_in_stage(stage_path, item.name, item)
         IN  << [stage_name |-> item.name,
                 stage_path |-> stage_path,
                 finished_json_path |->
                     IF item.finished.kind # "absent"
                     THEN Append(stage_path, FileName.finished) ELSE NoPath,
                 steps |-> steps,
                 metadata |-> parse_finished_json(item.finished).metadata] >>

\* the loop body of find_stages_in_run for one entry of artifacts
StageOf(artifacts_path, item) ==
    IF ~item.is_dir THEN <<>>
    ELSE LET stage_path == Append(artifacts_path, item.name)
             steps == find_steps_in_stage(stage_path, item.name, item)
         IN  IF steps # <<>> \/ item.finished.kind # "absent"
             THEN << [stage_name |-> item.name,
                      stage_path |-> stage_path,
                      finished_json_path |->
                          IF item.finished.kind # "absent"
                          THEN Append(stage_path, FileName.finished) ELSE NoPath,
                      steps |-> steps,
                      metadata |-> parse_finished_json(item.finished).metadata] >>
             ELSE <<>>

\* ProwStructureParser.find_stages_in_run
find_stages_in_run(run_path, run_dir) ==
    IF ~run_dir.artifacts.is_dir THEN <<>>
    ELSE Flatten([i \in 1..Len(run_dir.artifacts.items) |->
                     StageOf(Append(run_path, FileName.artifacts),
                             run_dir.artifacts.items[i])])

\* the outcome of every parse_finished_json call parse_run makes under a run
\* directory, in calling order: each stage's marker, then its steps' markers,
\* and the run's marker last
ParseOutcomes(run_dir) ==
    LET OfStep(item) ==
            IF item.is_dir /\ item.has_build_log /\ item.finished.kind # "absent"
            THEN <<parse_finished_json(item.finished).outcome>> ELSE <<>>
        OfStage(item) ==
            IF item.is_dir
            THEN (IF item.finished.kind # "absent"
                  THEN <<parse_finished_json(item.finished).outcome>> ELSE <<>>)
                     \o Flatten([i \in 1..Len(item.items) |-> OfStep(item.items[i])])
            ELSE <<>>
    IN  (IF run_dir.artifacts.is_dir
         THEN Flatten([i \in 1..Len(run_dir.artifacts.items) |->
                          OfStage(run_dir.artifacts.items[i])])
         ELSE <<>>)
            \o (IF run_dir.finished.kind # "absent"
                THEN <<parse_finished_json(run_dir.finished).outcome>> ELSE <<>>)

\* Optional[ProwRunInfo]: None
NoRun == [is_none |-> TRUE]

\* ProwStructureParser.parse_run: None when the path is not a directory
parse_run(log_root, name, run_dir) ==
    LET run_path == <<log_root, name>>
    IN  IF ~run_dir.is_dir THEN NoRun
        ELSE
        [pr_number |-> "unknown",
         job_name |-> log_root,
         build_number |-> name,
         run_path |-> run_path,
         stages |-> find_stages_in_run(run_path, run_dir),
         finished_json_path |->
             IF run_dir.finished.kind # "absent"
             THEN Append(run_path, FileName.finished) ELSE NoPath,
         metadata |-> parse_finished_json(run_dir.finished).metadata]

\* build_dir.name.startswith(".")
IsHidden(name) == Len(name) >= 1 /\ name[1] = "."

in_seen_builds_Never(name, seen_builds) == FALSE

\* build_dir.name in seen_builds
in_seen_builds(name, seen_builds) == name \in seen_builds

FilterStages_KeepAll(run_info, filter_stage) == run_info

\* the filter of find_all_runs, lines 276-281: the run with its stages
\* filtered; `if filter_stage` treats None and "" alike
FilterStages(run_info, filter_stage) ==
    IF Truthy(filter_stage)
    THEN [run_info EXCEPT !.stages = SelectSeq(run_info.stages,
                 LAMBDA stage : stage.stage_name = filter_stage.str)]
    ELSE run_info

has_failure_RunOnly(run_info) == ReportsFailure(run_info.metadata)

\* has_failure of find_failed_runs, lines 299-308
has_failure(run_info) ==
    \/ ReportsFailure(run_info.metadata)
    \/ \E s \in 1..Len(run_info.stages) : ReportsFailure(run_info.stages[s].metadata)

(* The trees the walker is run on.  The build directory b1 is drawn from    *)
(* the product of the marker, stage and step shapes below; the listing of   *)
(* the root may name an entry more than once (a listing taken while the     *)
(* directory changes, or a file system that reports an entry twice).        *)
MaxEntries == 2

PassedMarker ==
    JsonObjectFile([timestamp |-> Json("number", 1700000000),
                    passed |-> Json("bool", TRUE),
                    result |-> Json("string", "SUCCESS")])
FailedMarker ==
    JsonObjectFile([timestamp |-> Json("number", 1700000000),
                    passed |-> Json("bool", FALSE),
                    result |-> Json("string", "FAILURE")])

MarkerFiles == {AbsentFile, PassedMarker, FailedMarker}

S1 == <<"s", "1">>
S2 == <<"s", "2">>
B1 == <<"b", "1">>
B2 == <<"b", "2">>
DotHidden == <<".", "h">>

\* a child directory t1 of a stage directory
StepDir(finished, has_build_log) ==
    [name |-> <<"t", "1">>, is_dir |-> TRUE, has_build_log |-> has_build_log,
     finished |-> finished, has_sidecar |-> FALSE]

StageDir(name, finished, items) ==
    [name |-> name, is_dir |-> TRUE, finished |-> finished, items |-> items]

NoArtifacts == [is_dir |-> FALSE, items |-> <<>>]

\* no artifacts directory, or one with any of the stages s1, s2; a stage
\* directory holds nothing, a directory without a log, or one step
ArtifactsDirs ==
    LET StepListings ==
            {<<>>, <<StepDir(AbsentFile, FALSE)>>}
                \cup {<<StepDir(f, TRUE)>> : f \in MarkerFiles}
        StageDirs(name) ==
            {<<>>} \cup {<<StageDir(name, f, items)>> :
                            f \in MarkerFiles, items \in StepListings}
    IN  {NoArtifacts}
            \cup {[is_dir |-> TRUE, items |-> a \o b] :
                    a \in StageDirs(S1), b \in StageDirs(S2)}

\* run markers that are valid JSON objects with a field of the wrong type or
\* out of range (a timestamp that is null, NaN, 10^12 or 10^18; a passed that
\* is a non-empty array) or without one of the fields timestamp, passed,
\* result
OddMarkerFiles ==
    {JsonObjectFile([PassedMarker.fields EXCEPT !.timestamp = ts]) :
        ts \in {Json("null", 0), Json("nan", 0), Json("number_e", 12), Json("number_e", 18)}}
        \cup {JsonObjectFile([FailedMarker.fields EXCEPT !.passed = Json("array", TRUE)])}
        \cup {JsonObjectFile([k \in DOMAIN PassedMarker.fields \ {key} |->
                                 PassedMarker.fields[k]]) :
                 key \in {"timestamp", "passed", "result"}}

\* the build directories: every artifacts directory under a run marker that
\* is absent, passed or failed, and under the other run markers no
\* artifacts, or stage s1 without a marker or with a failed one
BuildDirs ==
    {[is_dir |-> TRUE, finished |-> f, artifacts |-> a] :
        f \in MarkerFiles, a \in ArtifactsDirs}
    \cup {[is_dir |-> TRUE, finished |-> f, artifacts |-> a] :
            f \in {[kind |-> "invalid_json"], [kind |-> "json", is_object |-> FALSE]} \cup OddMarkerFiles,
            a \in {NoArtifacts} \cup
                  {[is_dir |-> TRUE,
                    items |-> <<StageDir(S1, m, <<StepDir(AbsentFile, TRUE)>>)>>] :
                      m \in {AbsentFile, FailedMarker}}}

RegularFile == [is_dir |-> FALSE, finished |-> AbsentFile, artifacts |-> NoArtifacts]

\* a build whose run, stage s1 and step t1 all carry the same marker
SimpleBuild(marker) ==
    [is_dir |-> TRUE, finished |-> marker,
     artifacts |-> [is_dir |-> TRUE,
                    items |-> <<StageDir(S1, marker, <<StepDir(marker, TRUE)>>)>>]]

RootNames == {B1, B2, DotHidden, FileName.latest_build}

\* the root directory "logs": b1 is any build directory, b2 a passed build,
\* .h a hidden directory holding a failed build, latest-build.txt a file
Roots ==
    {[exists |-> TRUE, name |-> <<"l", "o", "g", "s">>, listing |-> l,
      dirs |-> [n \in RootNames |->
                   CASE n = B1 -> b
                     [] n = B2 -> SimpleBuild(PassedMarker)
                     [] n = DotHidden -> SimpleBuild(FailedMarker)
                     [] OTHER -> RegularFile]] :
        l \in SeqsUpTo(RootNames, MaxEntries), b \in BuildDirs}

MissingRoot ==
    [exists |-> FALSE, name |-> <<"l", "o", "g", "s">>, listing |-> <<>>,
     dirs |-> [n \in RootNames |-> RegularFile]]

FilterStageArgs == {None, Some(S1), Some(S2)}

WalkerIdleAll ==
    /\ wk_root = MissingRoot
    /\ wk_filter_stage = None
    /\ wk_pc = "idle"
    /\ wk_idx = 0
    /\ wk_seen = {}
    /\ wk_all = <<>>
    /\ wk_failed = <<>>
    /\ wk_warnings = <<>>

WalkerInit ==
    /\ wk_root \in Roots \cup {MissingRoot}
    /\ wk_filter_stage \in FilterStageArgs
    /\ wk_pc = "new"
    /\ wk_idx = 0
    /\ wk_seen = {}
    /\ wk_all = <<>>
    /\ wk_failed = <<>>
    /\ wk_warnings = <<>>

\* ProwStructureParser.__init__: ValueError when the root does not exist
ProwStructureParserInit ==
    /\ wk_pc = "new"
    /\ wk_pc' = IF wk_root.exists THEN "ready" ELSE "raised"
    /\ UNCHANGED <<wk_root, wk_filter_stage, wk_idx, wk_seen, wk_all, wk_failed, wk_warnings>>
    /\ UNCHANGED outsideWalker

\* find_failed_runs(filter_stage) is called and starts find_all_runs:
\* seen_builds = set(), the root is listed
FindFailedRuns ==
    /\ wk_pc = "ready"
    /\ wk_pc' = "iterating"
    /\ wk_idx' = 0
    /\ wk_seen' = {}
    /\ wk_all' = <<>>
    /\ wk_failed' = <<>>
    /\ UNCHANGED <<wk_root, wk_filter_stage, wk_warnings>>
    /\ UNCHANGED outsideWalker

\* a line the walker prints: "WARNING: Duplicate build directory detected"
\* or "Warning: Failed to parse"
Warning(text, name) == [warning |-> text, name |-> name]

\* One iteration of the loop of find_all_runs, and, when it yields, the body
\* of the loop of find_failed_runs that consumes it.
FindAllRunsEntry ==
    /\ wk_pc = "iterating"
    /\ wk_idx < Len(wk_root.listing)
    /\ LET name == wk_root.listing[wk_idx + 1]
           build_dir == wk_root.dirs[name]
           outcomes == ParseOutcomes(build_dir)
           run_info == FilterStages(parse_run(wk_root.name, name, build_dir),
                                    wk_filter_stage)
       IN  /\ wk_idx' = wk_idx + 1
           /\ IF ~build_dir.is_dir \/ IsHidden(name) \/ name = FileName.latest_build
              THEN UNCHANGED <<wk_pc, wk_seen, wk_all, wk_failed, wk_warnings>>
              ELSE IF in_seen_builds(name, wk_seen)
              THEN /\ wk_warnings' = Append(wk_warnings,
                          Warning("Duplicate build directory detected", name))
                   /\ UNCHANGED <<wk_pc, wk_seen, wk_all, wk_failed>>
              ELSE /\ wk_seen' = wk_seen \cup {name}
                   /\ IF "raise" \in Range(outcomes)
                      THEN /\ wk_pc' = "raised"
                           /\ wk_warnings' = wk_warnings \o
                                  [k \in 1..Len(SelectSeq(SubSeq(outcomes, 1,
                                        SetMin({j \in 1..Len(outcomes) :
                                                   outcomes[j] = "raise"})),
                                        LAMBDA o : o = "warning")) |->
                                      Warning("Failed to parse", name)]
                           /\ UNCHANGED <<wk_all, wk_failed>>
                      ELSE /\ wk_warnings' = wk_warnings \o
                                  [k \in 1..Len(SelectSeq(outcomes,
                                                    LAMBDA o : o = "warning")) |->
                                      Warning("Failed to parse", name)]
                           /\ wk_pc' = wk_pc
                           /\ IF \/ parse_run(wk_root.name, name, build_dir) = NoRun
                                 \/ Truthy(wk_filter_stage) /\ run_info.stages = <<>>
                              THEN UNCHANGED <<wk_all, wk_failed>>
                              ELSE /\ wk_all' = Append(wk_all, run_info)
                                   /\ wk_failed' = IF has_failure(run_info)
                                                   THEN Append(wk_failed, run_info)
                                                   ELSE wk_failed
    /\ UNCHANGED <<wk_root, wk_filter_stage>>
    /\ UNCHANGED outsideWalker

\* the listing is exhausted: both generators end
FindAllRunsExhausted ==
    /\ wk_pc = "iterating"
    /\ wk_idx = Len(wk_root.listing)
    /\ wk_pc' = "done"
    /\ UNCHANGED <<wk_root, wk_filter_stage, wk_idx, wk_seen, wk_all, wk_failed, wk_warnings>>
    /\ UNCHANGED outsideWalker

WalkerNext ==
    \/ ProwStructureParserInit
    \/ FindFailedRuns
    \/ FindAllRunsEntry
    \/ FindAllRunsExhausted

\* count_total_runs and count_failed_runs: the lengths of the two sequences
count_total_runs == Len(wk_all)
count_failed_runs == Len(wk_failed)

-----------------------------------------------------------------------------
(* Claims about the structure walker *)

\* metadata that is present and reports passed = false
MarkedFailed(metadata) == metadata.present /\ metadata.passed = Json("bool", FALSE)

RunOrStageMarkedFailed(run) ==
    \/ MarkedFailed(run.metadata)
    \/ \E s \in 1..Len(run.stages) : MarkedFailed(run.stages[s].metadata)

FailedOnlyByStage(run) ==
    /\ ~run.metadata.present
    /\ \E s \in 1..Len(run.stages) : MarkedFailed(run.stages[s].metadata)

\* C8: find_failed_runs yields exactly those runs of the (filtered)
\* find_all_runs sequence whose run-level metadata is present with
\* passed = false or one of whose (filtered) stages has metadata with
\* passed = false, in the same order; in particular a run without run-level
\* metadata but with a failing stage marker is yielded.
C8_FailedRunsFilter ==
    /\ wk_failed = SelectSeq(wk_all, RunOrStageMarkedFailed)
    /\ \A i \in 1..Len(wk_all) :
          FailedOnlyByStage(wk_all[i]) => wk_all[i] \in Range(wk_failed)

\* a finished traversal that yielded a run failed only by a stage marker and
\* passed over a run that reports no failure
C8_Witness ==
    /\ wk_pc = "done"
    /\ \E i \in 1..Len(wk_failed) : FailedOnlyByStage(wk_failed[i])
    /\ \E i \in 1..Len(wk_all) : wk_all[i] \notin Range(wk_failed)

\* the tree of C9: one build, no run-level and no stage-level marker, stage
\* s1 with a step that passed and stage s2 with a step whose marker has
\* passed = false
C9_Build ==
    [is_dir |-> TRUE, finished |-> AbsentFile,
     artifacts |-> [is_dir |-> TRUE,
                    items |-> <<StageDir(S1, AbsentFile, <<StepDir(PassedMarker, TRUE)>>),
                                StageDir(S2, AbsentFile, <<StepDir(FailedMarker, TRUE)>>)>>]]

C9_TreeWalked ==
    /\ wk_pc = "done"
    /\ wk_root.listing = <<B1>>
    /\ wk_root.dirs[B1] = C9_Build

BuildNumbers(runs) == {runs[i].build_number : i \in 1..Len(runs)}

\* C9 (as the claim states it): after find_failed_runs has walked that tree
\* the build is among the failed runs when there is no filter, and is not
\* among them when the filter is the passing stage.
C9_FailingStepListed ==
    C9_TreeWalked =>
        /\ wk_filter_stage = None => B1 \in BuildNumbers(wk_failed)
        /\ wk_filter_stage = Some(S1) => B1 \notin BuildNumbers(wk_failed)

\* the tree of C9 walked without a filter: the run is yielded by
\* find_all_runs with its failing step, and find_failed_runs yields nothing
C9_Witness ==
    /\ C9_TreeWalked
    /\ wk_filter_stage = None
    /\ Len(wk_all) = 1
    /\ \E s \in 1..Len(wk_all[1].stages) :
          \E t \in 1..Len(wk_all[1].stages[s].steps) :
              MarkedFailed(wk_all[1].stages[s].steps[t].metadata)
    /\ wk_failed = <<>>

\* the positions of the consumed part of the listing that name a candidate
\* build directory
CandidatePositions ==
    {k \in 1..wk_idx :
        /\ wk_root.dirs[wk_root.listing[k]].is_dir
        /\ wk_root.listing[k][1] # "."
        /\ wk_root.listing[k] # FileName.latest_build}

\* those that repeat the name of an earlier candidate
RepeatedPositions ==
    {k \in CandidatePositions :
        \E j \in CandidatePositions : j < k /\ wk_root.listing[j] = wk_root.listing[k]}

DuplicateWarnings ==
    SelectSeq(wk_warnings, LAMBDA w : w.warning = "Duplicate build directory detected")

\* C10: within one find_all_runs traversal no two yielded runs have the same
\* build_number; every entry whose name was already seen is skipped, so the
\* runs yielded (and counted) are at most the distinct candidate names, and
\* one duplicate warning is printed for each such entry.
C10_NoDuplicateBuilds ==
    /\ \A i, j \in 1..Len(wk_all) :
          i # j => wk_all[i].build_number # wk_all[j].build_number
    /\ count_total_runs <= Cardinality(CandidatePositions \ RepeatedPositions)
    /\ Len(DuplicateWarnings) = Cardinality(RepeatedPositions)
    /\ \A k \in RepeatedPositions :
          \E w \in 1..Len(DuplicateWarnings) :
              DuplicateWarnings[w].name = wk_root.listing[k]

\* a finished traversal of a listing that names b1 twice: one run, one warning
C10_Witness ==
    /\ wk_pc = "done"
    /\ wk_root.listing = <<B1, B1>>
    /\ Len(wk_all) = 1
    /\ wk_all[1].build_number = B1
    /\ wk_warnings = <<Warning("Duplicate build directory detected", B1)>>

\* the finished.json directly under the build directory of a yielded run
RunMarkerOf(run) == wk_root.dirs[run.build_number].finished

\* C11 (as the claim states it): whatever a marker file holds, parsing it
\* gives a metadata record or "absent" and never raises, so a traversal of an
\* existing root never ends with an exception.
C11_ParsingNeverRaises == wk_root.exists => wk_pc # "raised"

\* a traversal ended by an exception at its first entry, whose run marker
\* makes parse_finished_json raise, with the second entry never visited
C11_Witness ==
    /\ wk_pc = "raised"
    /\ wk_root.listing = <<B1, B2>>
    /\ wk_idx = 1
    /\ wk_all = <<>>
    /\ parse_finished_json(wk_root.dirs[B1].finished).outcome = "raise"

LacksRequiredField(file) ==
    /\ file.kind = "json"
    /\ file.is_object
    /\ ~({"timestamp", "passed", "result"} \subseteq DOMAIN file.fields)

\* C12 (as the claim states it): a run marker that is a JSON object without
\* one of timestamp, passed, result is treated as absent: the yielded run has
\* no metadata, a parse warning was printed for it, and the marker does not
\* make the run a failed run.
C12_MissingFieldIsAbsent ==
    \A i \in 1..Len(wk_all) :
        LacksRequiredField(RunMarkerOf(wk_all[i])) =>
            /\ ~wk_all[i].metadata.present
            /\ Warning("Failed to parse", wk_all[i].build_number) \in Range(wk_warnings)
            /\ (wk_all[i] \in Range(wk_failed) =>
                   \E s \in 1..Len(wk_all[i].stages) :
                       MarkedFailed(wk_all[i].stages[s].metadata))

\* a finished traversal in which a run whose marker has no `passed` field and
\* whose only stage has no marker is yielded as a failed run, with metadata
\* and without any warning
C12_Witness ==
    /\ wk_pc = "done"
    /\ wk_warnings = <<>>
    /\ \E i \in 1..Len(wk_failed) :
          /\ LacksRequiredField(RunMarkerOf(wk_failed[i]))
          /\ "passed" \notin DOMAIN RunMarkerOf(wk_failed[i]).fields
          /\ wk_failed[i].metadata.present
          /\ \A s \in 1..Len(wk_failed[i].stages) :
                ~wk_failed[i].stages[s].metadata.present

\* C13 (as the claim states it): a missing root makes the constructor raise
\* before anything is listed or yielded, and the walker raises in no other
\* case.
C13_RaisesOnlyForMissingRoot ==
    /\ ~wk_root.exists =>
          /\ wk_pc \in {"new", "raised"}
          /\ wk_idx = 0 /\ wk_seen = {} /\ wk_all = <<>> /\ wk_failed = <<>>
    /\ wk_pc = "raised" => ~wk_root.exists

\* the constructor has raised for a missing root
C13_Witness ==
    /\ ~wk_root.exists
    /\ wk_pc = "raised"
    /\ wk_all = <<>>

\* the consumed entries that find_all_runs parsed without an exception (an
\* exception ends the traversal at the entry that raised it)
ParsedPositions ==
    {k \in CandidatePositions \ RepeatedPositions : wk_pc = "raised" => k # wk_idx}

\* the build directory has, under artifacts, a directory of that name that
\* holds a marker file or a child directory with a log file
HasStageNamed(name, stage_name) ==
    LET items == wk_root.dirs[name].artifacts.items
    IN  \E s \in 1..Len(items) :
            /\ items[s].is_dir
            /\ items[s].name = stage_name
            /\ \/ items[s].finished.kind # "absent"
               \/ \E t \in 1..Len(items[s].items) :
                      items[s].items[t].is_dir /\ items[s].items[t].has_build_log

\* C14: with a filter_stage, every run find_all_runs yields has a non-empty
\* stage list whose stages all carry that name, a run without a stage of
\* that name is not yielded, and count_total_runs and count_failed_runs
\* count only the runs that have one.
C14_FilterStage ==
    Truthy(wk_filter_stage) =>
        /\ \A i \in 1..Len(wk_all) :
              /\ wk_all[i].stages # <<>>
              /\ \A s \in 1..Len(wk_all[i].stages) :
                    wk_all[i].stages[s].stage_name = wk_filter_stage.str
        /\ \A k \in ParsedPositions :
              wk_root.listing[k] \in BuildNumbers(wk_all)
                  <=> HasStageNamed(wk_root.listing[k], wk_filter_stage.str)
        /\ count_total_runs =
              Cardinality({k \in ParsedPositions :
                              HasStageNamed(wk_root.listing[k], wk_filter_stage.str)})
        /\ count_failed_runs <= count_total_runs

\* a finished traversal with filter s2 over a build with stages s1 and s2 and
\* a build with stage s1 only: the first is yielded with s2 alone, the second
\* is not yielded
C14_Witness ==
    /\ wk_pc = "done"
    /\ wk_filter_stage = Some(S2)
    /\ wk_root.listing = <<B1, B2>>
    /\ HasStageNamed(B1, S1) /\ HasStageNamed(B1, S2) /\ ~HasStageNamed(B2, S2)
    /\ count_total_runs = 1
    /\ wk_all[1].build_number = B1
    /\ Len(wk_all[1].stages) = 1

\* the build directory has, under artifacts/stage_name, a child directory of
\* that name that holds the log file
HasStepNamed(name, stage_name, step_name) ==
    LET items == wk_root.dirs[name].artifacts.items
    IN  \E s \in 1..Len(items) :
            /\ items[s].is_dir
            /\ items[s].name = stage_name
            /\ \E t \in 1..Len(items[s].items) :
                  /\ items[s].items[t].is_dir
                  /\ items[s].items[t].name = step_name
                  /\ items[s].items[t].has_build_log

\* C24: every stage of every yielded run has a step or its own marker file:
\* a directory under artifacts with no marker and no child directory holding
\* the log file is not a stage; and the directory of every step holds the
\* log file.
C24_StageHasStepOrMarker ==
    \A i \in 1..Len(wk_all) :
        \A s \in 1..Len(wk_all[i].stages) :
            LET stage == wk_all[i].stages[s]
            IN  /\ stage.steps # <<>> \/ stage.finished_json_path # NoPath
                /\ HasStageNamed(wk_all[i].build_number, stage.stage_name)
                /\ \A k \in 1..Len(stage.steps) :
                      /\ stage.steps[k].stage_name = stage.stage_name
                      /\ HasStepNamed(wk_all[i].build_number, stage.stage_name,
                                      stage.steps[k].step_name)

\* a run was yielded whose artifacts hold a directory s1 with no marker and a
\* child directory without a log, and a directory s2 with a step: s2 is its
\* only stage
C24_Witness ==
    /\ wk_filter_stage = None
    /\ \E i \in 1..Len(wk_all) :
          LET items == wk_root.dirs[wk_all[i].build_number].artifacts.items
          IN  /\ Len(items) = 2
              /\ items[1].name = S1
              /\ items[1].finished.kind = "absent"
              /\ Len(items[1].items) = 1
              /\ ~items[1].items[1].has_build_log
              /\ Len(wk_all[i].stages) = 1
              /\ wk_all[i].stages[1].stage_name = S2
              /\ Len(wk_all[i].stages[1].steps) = 1

\* C20 (as the claim states it): every yielded run has a stage or a
\* run-level marker file.
C20_StagesOrMarker ==
    \A i \in 1..Len(wk_all) :
        wk_all[i].stages # <<>> \/ wk_all[i].finished_json_path # NoPath

\* a finished traversal that yielded an empty build directory: no stages, no
\* marker path, no metadata
C20_Witness ==
    /\ wk_pc = "done"
    /\ wk_filter_stage = None
    /\ \E i \in 1..Len(wk_all) :
          /\ wk_all[i].stages = <<>>
          /\ wk_all[i].finished_json_path = NoPath
          /\ ~wk_all[i].metadata.present

-----------------------------------------------------------------------------
(* mcp/database_server.py: DatabaseAnalyticsServer.get_root_cause_distribution. *)
(* The step_analyses table is the number of rows of each root_cause and the *)
(* number of rows whose root_cause is NULL.                                  *)

MaxCauses == 3

\* limit of get_root_cause_distribution
DefaultLimit == 15

\* the rows of the query: one per root_cause that is not NULL, with its
\* number of rows, in non-increasing order of that number (rows of equal
\* count in any order the database gives), the first `limit` of them
QueryRows(table, limit) ==
    LET texts == DOMAIN table.by_cause
        n == Cardinality(texts)
        ordered == {rows \in [1..n -> texts] :
                       /\ \A i, j \in 1..n : i # j => rows[i] # rows[j]
                       /\ \A i \in 1..(n - 1) :
                             table.by_cause[rows[i]] >= table.by_cause[rows[i + 1]]}
    IN  {[k \in 1..Min2(limit, n) |->
            [root_cause |-> rows[k], count |-> table.by_cause[rows[k]]]] : rows \in ordered}

\* clustered_causes: one entry per cluster of clusters[:limit]
ClusteredCauses(clusters, limit) ==
    [c \in 1..Min2(limit, Len(clusters)) |->
        [root_cause |-> clusters[c].representative_text,
         count |-> clusters[c].total_count,
         cluster_size |-> Len(clusters[c].items),
         avg_similarity |-> clusters[c].avg_similarity,
         \* cluster.items[:5]
         variants |-> [k \in 1..Min2(5, Len(clusters[c].items)) |->
                          clusters[c].items[k].root_cause]]]

\* the dictionary returned without clustering
ExactMatching(results) ==
    [total_unique_causes |-> Len(results),
     causes |-> results,
     semantic_clustering_enabled |-> FALSE]

\* the dictionary returned with clustering
SemanticMatching(results, clusters, limit) ==
    [total_unique_causes |-> Len(results),
     clustered_count |-> Len(clusters),
     causes |-> ClusteredCauses(clusters, limit),
     semantic_clustering_enabled |-> TRUE]

Tables ==
    {[by_cause |-> counts, without_cause |-> nulls] :
        counts \in UNION {[S -> Counts] : S \in {T \in SUBSET Texts : Cardinality(T) <= MaxCauses}},
        nulls \in {0, 1}}

DistIdleAll ==
    /\ ds_table = [by_cause |-> <<>>, without_cause |-> 0]
    /\ ds_args = [limit |-> DefaultLimit, use_semantic_clustering |-> FALSE,
                  similarity_threshold |-> DefaultThreshold]
    /\ ds_provider = "available"
    /\ ds_pc = "idle"
    /\ ds_result = ExactMatching(<<>>)

\* a call about to be made.  The embedding provider returns embeddings, or
\* the import of numpy or of sentence_transformers fails (ImportError), or
\* loading the model or encoding raises another exception (RuntimeError, a
\* network error)
DistInit ==
    /\ ds_table \in Tables
    /\ ds_args \in [limit : {1, 2, DefaultLimit},
                     use_semantic_clustering : BOOLEAN,
                     similarity_threshold : {50, DefaultThreshold}]
    /\ ds_provider \in {"available", "ImportError", "RuntimeError"}
    /\ ds_pc = "idle"
    /\ ds_result = ExactMatching(<<>>)

\* get_root_cause_distribution(limit, use_semantic_clustering,
\* similarity_threshold): the query, then cluster_root_causes when clustering
\* is asked for and there is more than one cause; an ImportError of the
\* clustering falls through to the exact-matching return, any other
\* exception leaves the call
GetRootCauseDistribution ==
    /\ ds_pc = "idle"
    /\ \E results \in QueryRows(ds_table, ds_args.limit) :
          IF ds_args.use_semantic_clustering /\ Len(results) > 1
          THEN CASE ds_provider = "available" ->
                        /\ ds_pc' = "returned"
                        /\ ds_result' =
                               SemanticMatching(results,
                                   cluster_failures(results, ds_args.similarity_threshold),
                                   ds_args.limit)
                 [] ds_provider = "ImportError" ->
                        /\ ds_pc' = "returned"
                        /\ ds_result' = ExactMatching(results)
                 [] OTHER ->
                        /\ ds_pc' = "raised"
                        /\ UNCHANGED ds_result
          ELSE /\ ds_pc' = "returned"
               /\ ds_result' = ExactMatching(results)
    /\ UNCHANGED <<ds_table, ds_args, ds_provider>>
    /\ UNCHANGED outsideDist

DistNext == GetRootCauseDistribution

\* one entry per distinct root_cause of the table, with its number of rows,
\* up to `limit` entries
OneEntryPerText(causes) ==
    /\ Len(causes) = Min2(ds_args.limit, Cardinality(DOMAIN ds_table.by_cause))
    /\ \A i, j \in 1..Len(causes) : i # j => causes[i].root_cause # causes[j].root_cause
    /\ \A i \in 1..Len(causes) :
          /\ DOMAIN causes[i] = {"root_cause", "count"}
          /\ causes[i].root_cause \in DOMAIN ds_table.by_cause
          /\ causes[i].count = ds_table.by_cause[causes[i].root_cause]

\* C15 (as the claim states it): whenever the embedding provider is
\* unavailable or fails, the root-cause distribution call with clustering
\* asked for does not fail: it returns one entry per distinct text and
\* reports semantic_clustering_enabled = false.
C15_ProviderFailureFallsBack ==
    (ds_pc # "idle" /\ ds_args.use_semantic_clustering /\ ds_provider # "available") =>
        /\ ds_pc = "returned"
        /\ ~ds_result.semantic_clustering_enabled
        /\ OneEntryPerText(ds_result.causes)

\* a call with clustering asked for, two causes or more and a provider that
\* raises a RuntimeError: the call has raised
C15_Witness ==
    /\ ds_pc = "raised"
    /\ ds_args.use_semantic_clustering
    /\ ds_provider = "RuntimeError"
    /\ Cardinality(DOMAIN ds_table.by_cause) >= 2

\* the fallback the code does have: a missing library (ImportError) gives
\* the exact-matching dictionary, as does a call that never asks the provider
ImportErrorFallsBack ==
    (ds_pc # "idle" /\ (ds_provider = "ImportError" \/ ~ds_args.use_semantic_clustering)) =>
        /\ ds_pc = "returned"
        /\ ~ds_result.semantic_clustering_enabled
        /\ OneEntryPerText(ds_result.causes)

ImportErrorFallsBackReached ==
    /\ ds_pc = "returned"
    /\ ds_provider = "ImportError"
    /\ ds_args.use_semantic_clustering
    /\ Len(ds_result.causes) >= 2

-----------------------------------------------------------------------------
(* The walker's callers.  A caller may hold two traversals at a time, each  *)
(* a generator with its own locals (prow_structure.py:258-285), and turn    *)
(* from one to the other between two entries; agent/audit_agent.py makes    *)
(* two traversals in phase 0 and processes the failed runs in phase 1.      *)
(* The database is a file that outlives the agent: a further run of the     *)
(* program constructs its agent on the file the earlier ones wrote, and     *)
(* drop_all_tables, initialize_database (database/schema.py) and            *)
(* create_database (database/models.py) may be called on it at any time.    *)

MaxTraversals == 3

\* the runs of the program over one database file
MaxAudits == 2

AuditIdle ==
    /\ wk_other = [pc |-> "ready", idx |-> 0, seen |-> {}, all |-> <<>>, failed |-> <<>>,
                   started |-> 2]
    /\ ag_pc = "new"
    /\ ag_audits = 0
    /\ ag_metadata = [created |-> FALSE]
    /\ ag_failed_runs = <<>>
    /\ ag_idx = 0
    /\ ag_stage_idx = 0
    /\ ag_step_idx = 0
    /\ ag_ids = [run |-> 0, stage |-> 0, step |-> 0]
    /\ ag_dropped = FALSE
    /\ ag_db = [exists |-> FALSE, runs |-> <<>>, stages |-> <<>>, steps |-> <<>>,
                analyses |-> <<>>]

\* an agent about to be constructed, no database file written yet, on a
\* root whose listing names each entry once and whose build b1 is empty, or
\* has a failed stage s1 with one step, with or without a failed run marker;
\* every stage is asked for, or the stage s1
AuditInit ==
    /\ LET builds ==
               {[is_dir |-> TRUE, finished |-> AbsentFile, artifacts |-> NoArtifacts]}
                   \cup {[is_dir |-> TRUE, finished |-> f,
                          artifacts |->
                              [is_dir |-> TRUE,
                               items |-> <<StageDir(S1, FailedMarker, <<StepDir(m, TRUE)>>)>>]] :
                            f \in {AbsentFile, FailedMarker}, m \in MarkerFiles}
       IN  wk_root \in {r \in Roots :
                            /\ r.dirs[B1] \in builds
                            /\ \A i, j \in 1..Len(r.listing) :
                                   r.listing[i] = r.listing[j] => i = j}
    /\ wk_filter_stage \in {None, Some(S1)}
    /\ wk_pc = "new"
    /\ wk_idx = 0
    /\ wk_seen = {}
    /\ wk_all = <<>>
    /\ wk_failed = <<>>
    /\ wk_warnings = <<>>
    /\ AuditIdle

\* SwitchTraversal with seen_builds kept by the parser instead of the generator
SwitchTraversal_SharedSeen ==
    /\ ag_pc = "idle"
    /\ wk_pc \in {"ready", "iterating", "done"}
    /\ \/ /\ wk_pc' = wk_other.pc
          /\ wk_idx' = wk_other.idx
          /\ wk_seen' = wk_seen
          /\ wk_all' = wk_other.all
          /\ wk_failed' = wk_other.failed
          /\ wk_other' = [pc |-> wk_pc, idx |-> wk_idx, seen |-> wk_seen, all |-> wk_all,
                          failed |-> wk_failed, started |-> wk_other.started]
       \/ /\ wk_pc = "done"
          /\ wk_other.pc = "done"
          /\ wk_other.started < MaxTraversals
          /\ wk_pc' = "ready"
          /\ wk_idx' = 0
          /\ wk_seen' = wk_seen
          /\ wk_all' = <<>>
          /\ wk_failed' = <<>>
          /\ wk_other' = [pc |-> wk_pc, idx |-> wk_idx, seen |-> wk_seen, all |-> wk_all,
                          failed |-> wk_failed, started |-> wk_other.started + 1]
    /\ UNCHANGED <<wk_root, wk_filter_stage, wk_warnings>>
    /\ UNCHANGED <<ag_pc, ag_audits, ag_metadata, ag_failed_runs, ag_idx, ag_stage_idx,
                   ag_step_idx, ag_ids, ag_dropped, ag_db>>
    /\ UNCHANGED outsideAudit

\* The caller turns from the traversal it was consuming to its other one,
\* whose generator resumes with its own idx, seen_builds and yielded runs; or,
\* both being exhausted, drops the older and starts a further traversal.
SwitchTraversal ==
    /\ ag_pc = "idle"
    /\ wk_pc \in {"ready", "iterating", "done"}
    /\ \/ /\ wk_pc' = wk_other.pc
          /\ wk_idx' = wk_other.idx
          /\ wk_seen' = wk_other.seen
          /\ wk_all' = wk_other.all
          /\ wk_failed' = wk_other.failed
          /\ wk_other' = [pc |-> wk_pc, idx |-> wk_idx, seen |-> wk_seen, all |-> wk_all,
                          failed |-> wk_failed, started |-> wk_other.started]
       \/ /\ wk_pc = "done"
          /\ wk_other.pc = "done"
          /\ wk_other.started < MaxTraversals
          /\ wk_pc' = "ready"
          /\ wk_idx' = 0
          /\ wk_seen' = {}
          /\ wk_all' = <<>>
          /\ wk_failed' = <<>>
          /\ wk_other' = [pc |-> wk_pc, idx |-> wk_idx, seen |-> wk_seen, all |-> wk_all,
                          failed |-> wk_failed, started |-> wk_other.started + 1]
    /\ UNCHANGED <<wk_root, wk_filter_stage, wk_warnings>>
    /\ UNCHANGED <<ag_pc, ag_audits, ag_metadata, ag_failed_runs, ag_idx, ag_stage_idx,
                   ag_step_idx, ag_ids, ag_dropped, ag_db>>
    /\ UNCHANGED outsideAudit

\* AuditAgent.__init__ after its parser is constructed: AuditRepository and
\* DatabaseAnalyticsServer each run Base.metadata.create_all, which creates
\* the tables the file lacks and keeps the rows of those it has
AuditAgentInit ==
    /\ ag_pc = "new"
    /\ wk_pc = "ready"
    /\ ag_pc' = "idle"
    /\ ag_audits' = ag_audits + 1
    /\ ag_dropped' = FALSE
    /\ ag_db' = [ag_db EXCEPT !.exists = TRUE]
    /\ UNCHANGED <<ag_metadata, ag_failed_runs, ag_idx, ag_stage_idx, ag_step_idx, ag_ids,
                   wk_other>>
    /\ UNCHANGED walkerVars
    /\ UNCHANGED outsideAudit

\* main: the program is run again with the same arguments, on the same log
\* tree and database file, the run before having ended or raised; a new
\* agent is about to be constructed, the file is as it was left
RunAgain ==
    /\ ag_audits < MaxAudits
    /\ ag_pc \in {"done", "raised"} \/ wk_pc = "raised"
    /\ wk_pc' = "new"
    /\ wk_idx' = 0
    /\ wk_seen' = {}
    /\ wk_all' = <<>>
    /\ wk_failed' = <<>>
    /\ wk_warnings' = <<>>
    /\ wk_other' = [pc |-> "ready", idx |-> 0, seen |-> {}, all |-> <<>>, failed |-> <<>>,
                    started |-> 2]
    /\ ag_pc' = "new"
    /\ ag_failed_runs' = <<>>
    /\ ag_idx' = 0
    /\ ag_stage_idx' = 0
    /\ ag_step_idx' = 0
    /\ ag_ids' = [run |-> 0, stage |-> 0, step |-> 0]
    /\ UNCHANGED <<wk_root, wk_filter_stage, ag_audits, ag_metadata, ag_dropped, ag_db>>
    /\ UNCHANGED outsideAudit

\* drop_all_tables(database_url), which anything may call at any time:
\* Base.metadata.drop_all removes runs, stages, steps, step_analysis and
\* audit_metadata with every row.  While the tables are missing, the
\* statement an agent executes on the file fails (no such table) and the
\* exception leaves run_audit.
drop_all_tables ==
    /\ ag_db' = [exists |-> FALSE, runs |-> <<>>, stages |-> <<>>, steps |-> <<>>,
                 analyses |-> <<>>]
    /\ ag_metadata' = [created |-> FALSE]
    /\ ag_dropped' = (ag_pc # "new")
    /\ UNCHANGED <<ag_pc, ag_audits, ag_failed_runs, ag_idx, ag_stage_idx, ag_step_idx,
                   ag_ids, wk_other>>
    /\ UNCHANGED walkerVars
    /\ UNCHANGED outsideAudit

\* initialize_database(db_path), which anything may call at any time on the
\* file: Base.metadata.create_all creates the tables the file lacks, empty,
\* and keeps the rows of those it has.  An agent at work goes on with the
\* ids it holds, whether or not the rows they name are still there.
initialize_database ==
    /\ ag_db' = [ag_db EXCEPT !.exists = TRUE]
    /\ UNCHANGED <<ag_pc, ag_audits, ag_metadata, ag_failed_runs, ag_idx, ag_stage_idx,
                   ag_step_idx, ag_ids, ag_dropped, wk_other>>
    /\ UNCHANGED walkerVars
    /\ UNCHANGED outsideAudit

\* create_database(database_url): the same Base.metadata.create_all, on the
\* engine of the URL
create_database ==
    /\ ag_db' = [ag_db EXCEPT !.exists = TRUE]
    /\ UNCHANGED <<ag_pc, ag_audits, ag_metadata, ag_failed_runs, ag_idx, ag_stage_idx,
                   ag_step_idx, ag_ids, ag_dropped, wk_other>>
    /\ UNCHANGED walkerVars
    /\ UNCHANGED outsideAudit

\* AuditAgent._phase_0_prefiltering once its two traversals are exhausted:
\* total_runs is the count of the one, failed_runs the failed runs of the
\* other; create_audit_metadata deletes the row audit_metadata holds and
\* stores the new one, and the success rate is printed (a division by
\* total_runs)
Phase0Prefiltering ==
    /\ ag_pc = "idle"
    /\ wk_pc = "done"
    /\ wk_other.pc = "done"
    /\ LET total_runs == Len(wk_other.all)
           failed_count == Len(wk_failed)
       IN  IF ~ag_db.exists
           THEN /\ ag_pc' = "raised"
                /\ UNCHANGED <<ag_metadata, ag_failed_runs>>
           ELSE /\ ag_metadata' = [created |-> TRUE,
                                   total_runs_scanned |-> total_runs,
                                   failed_runs_analyzed |-> failed_count,
                                   successful_runs_count |-> total_runs - failed_count,
                                   filter_stage |-> wk_filter_stage]
                /\ IF total_runs = 0
                   THEN /\ ag_pc' = "raised"
                        /\ UNCHANGED ag_failed_runs
                   ELSE /\ ag_pc' = "phase_1"
                        /\ ag_failed_runs' = wk_failed
    /\ UNCHANGED <<ag_audits, ag_idx, ag_stage_idx, ag_step_idx, ag_ids, ag_dropped, ag_db,
                   wk_other>>
    /\ UNCHANGED walkerVars
    /\ UNCHANGED outsideAudit

\* AuditAgent._phase_1_log_processing, the loop `for run_info in
\* failed_runs`: the loop ends, or run_count is advanced and the run is passed
\* over when it has no run-level metadata, else create_run looks for a row of
\* this build_number and job_name (every row of the file is of the one job
\* the root names): it returns the row found, or commits a new run record;
\* `run` holds the row, and the loop over the run's stages begins
Phase1NextRun ==
    /\ ag_pc = "phase_1"
    /\ IF ag_idx = Len(ag_failed_runs)
       THEN /\ ag_pc' = "done"
            /\ UNCHANGED <<ag_idx, ag_stage_idx, ag_ids, ag_db>>
       ELSE LET run_info == ag_failed_runs[ag_idx + 1]
                existing == {r \in 1..Len(ag_db.runs) :
                                ag_db.runs[r].build_number = run_info.build_number}
            IN  /\ ag_idx' = ag_idx + 1
                /\ IF ~run_info.metadata.present
                   THEN UNCHANGED <<ag_pc, ag_stage_idx, ag_ids, ag_db>>
                   ELSE IF ~ag_db.exists
                   THEN /\ ag_pc' = "raised"
                        /\ UNCHANGED <<ag_stage_idx, ag_ids, ag_db>>
                   ELSE /\ IF existing # {}
                           THEN /\ ag_ids' = [ag_ids EXCEPT !.run = CHOOSE r \in existing : TRUE]
                                /\ UNCHANGED ag_db
                           ELSE /\ ag_ids' = [ag_ids EXCEPT !.run = Len(ag_db.runs) + 1]
                                /\ ag_db' = [ag_db EXCEPT !.runs =
                                        Append(@, [build_number |-> run_info.build_number,
                                                   passed |-> run_info.metadata.passed])]
                        /\ ag_pc' = "stages"
                        /\ ag_stage_idx' = 0
    /\ UNCHANGED <<ag_audits, ag_metadata, ag_failed_runs, ag_step_idx, ag_dropped, wk_other>>
    /\ UNCHANGED walkerVars
    /\ UNCHANGED outsideAudit

\* the loop over run_info.stages: the loop ends, or the stage record is
\* committed with run_id = run.id (_process_stage, create_stage; no foreign
\* key is enforced), `stage` holds it, and the loop over its steps begins
Phase1NextStage ==
    /\ ag_pc = "stages"
    /\ LET run_info == ag_failed_runs[ag_idx]
       IN  IF ag_stage_idx = Len(run_info.stages)
           THEN /\ ag_pc' = "phase_1"
                /\ UNCHANGED <<ag_stage_idx, ag_step_idx, ag_ids, ag_db>>
           ELSE IF ~ag_db.exists
           THEN /\ ag_pc' = "raised"
                /\ UNCHANGED <<ag_stage_idx, ag_step_idx, ag_ids, ag_db>>
           ELSE LET stage_info == run_info.stages[ag_stage_idx + 1]
                IN  /\ ag_stage_idx' = ag_stage_idx + 1
                    /\ ag_ids' = [ag_ids EXCEPT !.stage = Len(ag_db.stages) + 1]
                    /\ ag_db' = [ag_db EXCEPT !.stages =
                           Append(@, [run_id |-> ag_ids.run,
                                      stage_name |-> stage_info.stage_name,
                                      passed |-> IF stage_info.metadata.present
                                                 THEN stage_info.metadata.passed
                                                 ELSE Json("bool", FALSE)])]
                    /\ ag_pc' = "steps"
                    /\ ag_step_idx' = 0
    /\ UNCHANGED <<ag_audits, ag_metadata, ag_failed_runs, ag_idx, ag_dropped, wk_other>>
    /\ UNCHANGED walkerVars
    /\ UNCHANGED outsideAudit

\* the loop over stage_info.steps: the loop ends, or a step marked passed is
\* passed over, or _process_step is entered: the log context is built and
\* the answer of the step analyzer is awaited
Phase1NextStep ==
    /\ ag_pc = "steps"
    /\ LET stage_info == ag_failed_runs[ag_idx].stages[ag_stage_idx]
       IN  IF ag_step_idx = Len(stage_info.steps)
           THEN /\ ag_pc' = "stages"
                /\ UNCHANGED ag_step_idx
           ELSE LET step_info == stage_info.steps[ag_step_idx + 1]
                IN  /\ ag_step_idx' = ag_step_idx + 1
                    /\ ag_pc' = IF step_info.metadata.present
                                     /\ JsonTruthy(step_info.metadata.passed)
                                THEN "steps" ELSE "analyzing"
    /\ UNCHANGED <<ag_audits, ag_metadata, ag_failed_runs, ag_idx, ag_stage_idx, ag_ids,
                   ag_dropped, ag_db, wk_other>>
    /\ UNCHANGED walkerVars
    /\ UNCHANGED outsideAudit

\* _process_step once the analyzer has answered, or has failed (the
\* exception is caught): the step record is committed with stage_id =
\* stage.id (create_step), and `step` holds it
ProcessStepCreateStep ==
    /\ ag_pc = "analyzing"
    /\ LET step_info == ag_failed_runs[ag_idx].stages[ag_stage_idx].steps[ag_step_idx]
       IN  IF ~ag_db.exists
           THEN /\ ag_pc' = "raised"
                /\ UNCHANGED <<ag_ids, ag_db>>
           ELSE /\ ag_pc' = "step_created"
                /\ ag_ids' = [ag_ids EXCEPT !.step = Len(ag_db.steps) + 1]
                /\ ag_db' = [ag_db EXCEPT !.steps =
                       Append(@, [stage_id |-> ag_ids.stage,
                                  step_name |-> step_info.step_name])]
    /\ UNCHANGED <<ag_audits, ag_metadata, ag_failed_runs, ag_idx, ag_stage_idx, ag_step_idx,
                   ag_dropped, wk_other>>
    /\ UNCHANGED walkerVars
    /\ UNCHANGED outsideAudit

\* the end of _process_step: the analysis is committed with step_id =
\* step.id (create_step_analysis); step_analysis.step_id is unique, and the
\* insert of a step_id the table holds fails (IntegrityError)
ProcessStepCreateAnalysis ==
    /\ ag_pc = "step_created"
    /\ IF \/ ~ag_db.exists
          \/ \E a \in 1..Len(ag_db.analyses) : ag_db.analyses[a].step_id = ag_ids.step
       THEN /\ ag_pc' = "raised"
            /\ UNCHANGED ag_db
       ELSE /\ ag_pc' = "steps"
            /\ ag_db' = [ag_db EXCEPT !.analyses = Append(@, [step_id |-> ag_ids.step])]
    /\ UNCHANGED <<ag_audits, ag_metadata, ag_failed_runs, ag_idx, ag_stage_idx, ag_step_idx,
                   ag_ids, ag_dropped, wk_other>>
    /\ UNCHANGED walkerVars
    /\ UNCHANGED outsideAudit

-----------------------------------------------------------------------------
(* Claims about the walker's callers *)

\* the two traversals the caller holds, as records of the generator's locals
Traversals ==
    {[pc |-> wk_pc, idx |-> wk_idx, seen |-> wk_seen, all |-> wk_all, failed |-> wk_failed],
     [pc |-> wk_other.pc, idx |-> wk_other.idx, seen |-> wk_other.seen,
      all |-> wk_other.all, failed |-> wk_other.failed]}

\* the names a traversal at position idx has met among the build directories
NamesMet(idx) ==
    {wk_root.listing[k] :
        k \in {j \in 1..idx :
                  /\ wk_root.dirs[wk_root.listing[j]].is_dir
                  /\ ~IsHidden(wk_root.listing[j])
                  /\ wk_root.listing[j] # FileName.latest_build}}

\* C29: every traversal is independent of the others.  The set of seen
\* build names of a traversal holds exactly the build directories that this
\* traversal has met, whatever another traversal has yielded meanwhile; two
\* traversals of the unchanged tree that have both ended, one after the
\* other or interleaved, have yielded the same runs and the same failed
\* runs; and the failed runs of a traversal are never more than its runs.
C29_IndependentTraversals ==
    /\ \A f \in Traversals :
           /\ f.pc \in {"iterating", "done"} => f.seen = NamesMet(f.idx)
           /\ Len(f.failed) <= Len(f.all)
    /\ \A f, g \in Traversals :
           f.pc = "done" /\ g.pc = "done" => f.all = g.all /\ f.failed = g.failed

\* two interleaved traversals have each yielded the build b1, a failed run,
\* and no duplicate was reported
C29_Witness ==
    /\ wk_pc = "iterating"
    /\ wk_other.pc = "iterating"
    /\ B1 \in BuildNumbers(wk_failed)
    /\ B1 \in BuildNumbers(wk_other.failed)
    /\ wk_warnings = <<>>

\* a third traversal, begun after two others had ended, has ended with runs
C29_SuccessiveReached ==
    /\ wk_pc = "done"
    /\ wk_other.pc = "done"
    /\ wk_other.started = MaxTraversals
    /\ Len(wk_all) = 2

\* the steps of a stage that are not marked passed
StepsToAnalyze(stage_info) ==
    SelectSeq(stage_info.steps,
              LAMBDA s : ~(s.metadata.present /\ s.metadata.passed = Json("bool", TRUE)))

\* the run of the table runs whose id is run_id has a stage of this name with
\* a step of this name that has its analysis
Analyzed(run_id, stage_name, step_name) ==
    \E g \in 1..Len(ag_db.stages), d \in 1..Len(ag_db.steps), a \in 1..Len(ag_db.analyses) :
        /\ ag_db.stages[g].run_id = run_id
        /\ ag_db.stages[g].stage_name = stage_name
        /\ ag_db.steps[d].stage_id = g
        /\ ag_db.steps[d].step_name = step_name
        /\ ag_db.analyses[a].step_id = d

\* the ids of the run records of a build
RunIds(build_number) ==
    {r \in 1..Len(ag_db.runs) : ag_db.runs[r].build_number = build_number}

\* C30 (as the claim states it): once phase 1 has ended, drop_all_tables not
\* having been called under the agent, every run that phase 0 retained, and
\* counted in failed_runs_analyzed, has a run record, and each of its steps
\* that is not marked passed has a step record and an analysis under it -
\* also when the run is failed only through a stage, its own metadata absent.
C30_EveryFailedRunProcessed ==
    (ag_pc = "done" /\ ~ag_dropped) =>
        /\ ag_db.exists
        /\ ag_metadata.created
        /\ ag_metadata.failed_runs_analyzed = Len(ag_failed_runs)
        /\ \A i \in 1..Len(ag_failed_runs) :
               LET run_info == ag_failed_runs[i]
               IN  \E r \in RunIds(run_info.build_number) :
                       \A s \in 1..Len(run_info.stages) :
                           \A k \in 1..Len(StepsToAnalyze(run_info.stages[s])) :
                               Analyzed(r, run_info.stages[s].stage_name,
                                        StepsToAnalyze(run_info.stages[s])[k].step_name)

\* phase 1 has ended and nothing was dropped under the agent; phase 0 had
\* retained and counted b1, failed only through its stage s1, with a step that
\* is not marked passed; the file holds no run record of b1, and no stage,
\* step or analysis at all
C30_Witness ==
    /\ ag_pc = "done"
    /\ ~ag_dropped
    /\ ag_db.exists
    /\ ag_metadata.created
    /\ ag_metadata.failed_runs_analyzed = Len(ag_failed_runs)
    /\ \E i \in 1..Len(ag_failed_runs) :
           /\ ag_failed_runs[i].build_number = B1
           /\ FailedOnlyByStage(ag_failed_runs[i])
           /\ \E s \in 1..Len(ag_failed_runs[i].stages) :
                  StepsToAnalyze(ag_failed_runs[i].stages[s]) # <<>>
    /\ RunIds(B1) = {}
    /\ ag_db.stages = <<>>
    /\ ag_db.steps = <<>>
    /\ ag_db.analyses = <<>>

\* the runs with run-level metadata are processed: b1, marked failed, has
\* its run record and the analysis of its step t1 of stage s1
C30_MarkedRunProcessed ==
    /\ ag_pc = "done"
    /\ ~ag_dropped
    /\ \E r \in RunIds(B1) : Analyzed(r, S1, <<"t", "1">>)

\* a second run of the program has ended on the file the first one wrote:
\* create_run has returned the row of b1 that was there, runs holds it once,
\* while the stage of b1 was recorded by both
C30_ExistingRunReturned ==
    /\ ag_pc = "done"
    /\ ag_audits = 2
    /\ Cardinality(RunIds(B1)) = 1
    /\ Len(SelectSeq(ag_db.stages, LAMBDA g : g.run_id \in RunIds(B1))) = 2

\* the tables were dropped under an agent in phase 1, whose next statement
\* has failed
C30_DroppedUnderAgent ==
    /\ ag_pc = "raised"
    /\ ag_dropped
    /\ ~ag_db.exists
    /\ ag_idx > 0

\* the tables were dropped under an agent and created again: phase 1 has
\* ended on tables that lack the run record its stage record names
C30_RecreatedUnderAgent ==
    /\ ag_pc = "done"
    /\ ag_dropped
    /\ ag_db.exists
    /\ ag_db.runs = <<>>
    /\ \E g \in 1..Len(ag_db.stages) : ag_db.stages[g].run_id = 1

\* the insert of an analysis has failed on the unique step_id: the file held
\* the analysis of a step of this id, written before the tables of the
\* steps were dropped and created again
C30_DuplicateStepId ==
    /\ ag_pc = "raised"
    /\ ag_db.exists
    /\ ag_idx > 0
    /\ \E a \in 1..Len(ag_db.analyses) : ag_db.analyses[a].step_id = ag_ids.step

AuditNext ==
    \/ WalkerNext
    \/ AuditAgentInit
    \/ RunAgain
    \/ drop_all_tables
    \/ initialize_database
    \/ create_database
    \/ SwitchTraversal
    \/ Phase0Prefiltering
    \/ Phase1NextRun
    \/ Phase1NextStage
    \/ Phase1NextStep
    \/ ProcessStepCreateStep
    \/ ProcessStepCreateAnalysis

-----------------------------------------------------------------------------
(* The specifications, one per component *)

InitTaxonomy == TaxInit /\ LogIdleAll /\ ClusterIdleAll /\ WalkerIdleAll /\ DistIdleAll /\ AuditIdle

SpecTaxonomy == InitTaxonomy /\ [][TaxNext]_vars


InitLog == LogInit /\ TaxIdle /\ ClusterIdleAll /\ WalkerIdleAll /\ DistIdleAll /\ AuditIdle

SpecLog == InitLog /\ [][LogNext]_vars


InitCluster == ClusterInit /\ TaxIdle /\ LogIdleAll /\ WalkerIdleAll /\ DistIdleAll /\ AuditIdle

SpecCluster == InitCluster /\ [][ClusterNext]_vars


InitWalker == WalkerInit /\ TaxIdle /\ LogIdleAll /\ ClusterIdleAll /\ DistIdleAll /\ AuditIdle

SpecWalker == InitWalker /\ [][WalkerNext]_vars


InitDistribution == DistInit /\ TaxIdle /\ LogIdleAll /\ ClusterIdleAll /\ WalkerIdleAll /\ AuditIdle

SpecDistribution == InitDistribution /\ [][DistNext]_vars


InitAudit == AuditInit /\ TaxIdle /\ LogIdleAll /\ ClusterIdleAll /\ DistIdleAll

SpecAudit == InitAudit /\ [][AuditNext]_vars

=============================================================================
